---- MODULE Spec2Model ----
(***************************************************************************)
(* Model of the graph containers (LEdge, LPort, LNode, LNodeLayer, LGraph) *)
(* and of the processors built on them (GreedyCycleBreaker,                *)
(* MinWidthLayerer, LongEdgeSplitter, LongEdgeJoiner, ReversedEdgeRestorer)*)
(* of layeredGraphLayouter.                                                *)
(*                                                                         *)
(* Objects are numbered.  Node n owns the ports EastPort(n) (side EAST)    *)
(* and WestPort(n) (side WEST); 0 stands for Python's None.  Python lists  *)
(* are sequences, Python sets are sets.  Coordinates, sizes, labels, bend  *)
(* points and junction points are not part of the model.                   *)
(***************************************************************************)
EXTENDS Integers, Sequences, FiniteSets, TLC

(***************************************************************************)
(* Bounds of the model.                                                    *)
(***************************************************************************)
\* edges created in the specification of the edge mutators
MutEdges == 2
\* nodes and edges of the graphs given to the cycle breaker
CbNodes == 3
CbEdges == 4
\* nodes and edges of the graphs given to the layerer
LyNodes == 3
LyEdges == 2
LyMaxHeight == 1
\* nodes, layers and edges of the layered graphs given to the splitter
LeNodes == 2
LeLayers == 4
LeEdges == 2
\* layers, nodes and list length in the specification of the layer mutators
LrLayers == 2
LrNodes == 2
LrLen == 3

\* kinds of processors and phases in use in the specification of the controller
CfKinds == 3
CfPhases == 2
\* layers, nodes per layer, edges, runs and seeds of the graphs given to the
\* crossing minimizer, and the size of the state of its random source
CmLayers == 3
CmWidth == 2
CmEdges == 3
CmThoroughness == 2
CmSeeds == 2
RndMod == 8
\* nodes, layers, edges and node size of the graphs given to the in-layer
\* constraint processor, the node placer and the edge router
PlNodes == 3
PlLayers == 3
PlEdges == 1
PlMaxSize == 1
\* nodes, edges and node positions of the routed graphs given to the
\* reversed-edge restorer
RrNodes == 2
RrEdges == 2
RrMaxY == 1
\* layers and nodes of a layer of the graphs, nested graphs included, given
\* to LayerSweepCrossingMinimizer.process
PrLayers == 2
PrWidth == 2
BitMaxNum == 2
BitMaxIndex == 3
BitMaxSize == 3
\* hypernodes, pairs of hypernodes with a dependency and the weight of a
\* dependency in the dependency graphs of OrthogonalRoutingGenerator
HnNodes == 3
HnDeps == 3
HnMaxWeight == 1
\* nodes of a layer and edges between the two layers given to
\* HyperedgeCrossingsCounter
HcWidth == 3
HcEdges == 3
Max2(a, b) == IF a >= b THEN a ELSE b

\* the splitter adds one dummy node and one edge per layer a long edge skips
LeDummies == LeEdges * Max2(LeLayers - 2, 0)

NodeCap == Max2(Max2(CbNodes, LyNodes), Max2(LeNodes + LeDummies, LrNodes))
EdgeCap == Max2(Max2(CbEdges, LyEdges), Max2(LeEdges + LeDummies, MutEdges))

NodeIds == 1..NodeCap
PortIds == 1..(2 * NodeCap)
EdgeIds == 1..EdgeCap

VARIABLES
    \* LGraph
    nodes, edges, layers,
    \* LNode
    layer, type, west, east, height, mark, indeg, outdeg,
    \* LPort
    direction, incomingEdges, outgoingEdges,
    \* LEdge
    src, dst, srcNode, dstNode, reversed, isSelfLoop, bendPoints,
    \* local variables of the running processor
    cb, ly, cur, pc,
    \* history: what the claims compare the present state with
    hist, orig,
    \* LayoutProcessorConfiguration and LayoutProcessor
    cfg,
    \* LayerSweepCrossingMinimizer and the graph it works on
    cm,
    \* the graph given to InLayerConstraintProcessor, BKNodePlacer and
    \* OrthogonalEdgeRouter
    place

gGraph == <<nodes, edges, layers>>
gNode == <<layer, type, west, east>>
gIn == <<height, direction>>
gDeg == <<mark, indeg, outdeg>>
gEdge == <<src, dst, srcNode, dstNode, reversed, isSelfLoop, bendPoints,
          incomingEdges, outgoingEdges>>
gProc == <<cb, ly, cur>>
\* the state of the components specified further below
gLater == <<cfg, cm, place>>
vars == <<nodes, edges, layers, layer, type, west, east, height, mark, indeg, outdeg,
          direction, incomingEdges, outgoingEdges,
          src, dst, srcNode, dstNode, reversed, isSelfLoop, bendPoints,
          cb, ly, cur, pc, hist, orig, gLater>>

(***************************************************************************)
(* Python lists.                                                           *)
(***************************************************************************)
Range(s) == {s[i] : i \in 1..Len(s)}

Count(s, x) == Cardinality({i \in 1..Len(s) : s[i] = x})

\* index (from 1) of the first occurrence of x in s, 0 when there is none
IndexOf(s, x) ==
    IF \E i \in 1..Len(s) : s[i] = x
    THEN CHOOSE i \in 1..Len(s) : s[i] = x /\ \A j \in 1..(i - 1) : s[j] # x
    ELSE 0

\* del s[i] with i counted from 1
DeleteAt(s, i) == SubSeq(s, 1, i - 1) \o SubSeq(s, i + 1, Len(s))

\* list.remove(x): removes the first occurrence (a ValueError when there is
\* none, which no action of the model runs into)
Remove(s, x) == IF IndexOf(s, x) = 0 THEN s ELSE DeleteAt(s, IndexOf(s, x))

\* list.insert(index, x) with index counted from 0; an index beyond the end appends
Insert(s, index, x) ==
    LET k == IF index > Len(s) THEN Len(s) ELSE index
    IN SubSeq(s, 1, k) \o <<x>> \o SubSeq(s, k + 1, Len(s))

(***************************************************************************)
(* LPort, LNode                                                            *)
(***************************************************************************)
EastPort(n) == 2 * n - 1
WestPort(n) == 2 * n

\* LPort.getNode: the node owning the port
getNode(p) == (p + 1) \div 2

\* LNode.iterPorts: north, east, south, west
iterPorts(n) == east[n] \o west[n]

(***************************************************************************)
(* LEdge.  An operation takes the fields of all edges and the edge lists   *)
(* of all ports as one record and returns the record after the call.       *)
(***************************************************************************)
EdgeState ==
    [src |-> src, dst |-> dst, srcNode |-> srcNode, dstNode |-> dstNode,
     reversed |-> reversed, isSelfLoop |-> isSelfLoop, bendPoints |-> bendPoints,
     incomingEdges |-> incomingEdges, outgoingEdges |-> outgoingEdges]

SetEdgeState(E) ==
    /\ src' = E.src
    /\ dst' = E.dst
    /\ srcNode' = E.srcNode
    /\ dstNode' = E.dstNode
    /\ reversed' = E.reversed
    /\ isSelfLoop' = E.isSelfLoop
    /\ bendPoints' = E.bendPoints
    /\ incomingEdges' = E.incomingEdges
    /\ outgoingEdges' = E.outgoingEdges

setSource(E, e, p) ==
    LET E1 == IF E.src[e] # 0
              THEN [E EXCEPT !.outgoingEdges[E.src[e]] = Remove(@, e)]
              ELSE E
    IN IF p = 0
       THEN [E1 EXCEPT !.src[e] = 0, !.srcNode[e] = 0, !.isSelfLoop[e] = FALSE]
       ELSE [E1 EXCEPT !.src[e] = p, !.srcNode[e] = getNode(p),
                       !.outgoingEdges[p] = Append(@, e),
                       !.isSelfLoop[e] = (getNode(p) = E1.dstNode[e])]

\* setTarget without the removal from the list of the old target port
setTargetNoRemove(E, e, p) ==
    IF p = 0
    THEN [E EXCEPT !.dst[e] = 0, !.dstNode[e] = 0, !.isSelfLoop[e] = FALSE]
    ELSE [E EXCEPT !.dst[e] = p, !.dstNode[e] = getNode(p),
                   !.incomingEdges[p] = Append(@, e),
                   !.isSelfLoop[e] = (E.srcNode[e] = getNode(p))]

setTarget(E, e, p) ==
    LET E1 == IF E.dst[e] # 0
              THEN [E EXCEPT !.incomingEdges[E.dst[e]] = Remove(@, e)]
              ELSE E
    IN IF p = 0
       THEN [E1 EXCEPT !.dst[e] = 0, !.dstNode[e] = 0, !.isSelfLoop[e] = FALSE]
       ELSE [E1 EXCEPT !.dst[e] = p, !.dstNode[e] = getNode(p),
                       !.incomingEdges[p] = Append(@, e),
                       !.isSelfLoop[e] = (E1.srcNode[e] = getNode(p))]

\* as setTarget, but the edge is inserted at the given index (from 0); the
\* self-loop flag is not assigned
setTargetAndInsertAtIndex(E, e, p, index) ==
    LET E1 == IF E.dst[e] # 0
              THEN [E EXCEPT !.incomingEdges[E.dst[e]] = Remove(@, e)]
              ELSE E
    IN IF p # 0
       THEN [E1 EXCEPT !.dst[e] = p, !.dstNode[e] = getNode(p),
                       !.incomingEdges[p] = Insert(@, index, e)]
       ELSE [E1 EXCEPT !.dst[e] = 0, !.dstNode[e] = 0]

setSrcDst(E, e, p, q) == setTarget(setSource(E, e, p), e, q)

\* reverse with the flag set instead of negated
reverseSetsFlag(E, e, adaptPorts) ==
    LET oldSrc == E.src[e]
        oldDst == E.dst[e]
        out1 == [E.outgoingEdges EXCEPT ![oldSrc] = Remove(@, e)]
        in1 == [E.incomingEdges EXCEPT ![oldDst] = Remove(@, e)]
        E1 == IF adaptPorts
              THEN setTarget(setSource(setSrcDst(E, e, 0, 0), e, oldDst), e, oldSrc)
              ELSE [E EXCEPT !.src[e] = oldDst, !.dst[e] = oldSrc,
                             !.outgoingEdges = [out1 EXCEPT ![oldDst] = Append(@, e)],
                             !.incomingEdges = [in1 EXCEPT ![oldSrc] = Append(@, e)],
                             !.srcNode[e] = E.dstNode[e], !.dstNode[e] = E.srcNode[e]]
    IN [E1 EXCEPT !.reversed[e] = TRUE]

\* LEdge.reverse.  No port is a collector port (inputCollect is False on
\* every port), so with adaptPorts the new source is the old target and the
\* new target the old source.  The edges carry no labels.  No statement of
\* the method touches bendPoints.
reverse(E, e, adaptPorts) ==
    LET oldSrc == E.src[e]
        oldDst == E.dst[e]
        out1 == [E.outgoingEdges EXCEPT ![oldSrc] = Remove(@, e)]
        in1 == [E.incomingEdges EXCEPT ![oldDst] = Remove(@, e)]
        E1 == IF adaptPorts
              THEN setTarget(setSource(setSrcDst(E, e, 0, 0), e, oldDst), e, oldSrc)
              ELSE [E EXCEPT !.src[e] = oldDst, !.dst[e] = oldSrc,
                             !.outgoingEdges = [out1 EXCEPT ![oldDst] = Append(@, e)],
                             !.incomingEdges = [in1 EXCEPT ![oldSrc] = Append(@, e)],
                             !.srcNode[e] = E.dstNode[e], !.dstNode[e] = E.srcNode[e]]
    IN [E1 EXCEPT !.reversed[e] = ~E.reversed[e]]

\* LGraph.add_edge, for the edge object e
add_edge(E, e, p, q) == setSrcDst(E, e, p, q)

(***************************************************************************)
(* Values of the variables a specification does not use, and the state of  *)
(* a graph right after LGraph.add_node was called for the nodes of a list. *)
(***************************************************************************)
NoCb == [sinks |-> <<>>, sources |-> <<>>, unresolved |-> {}, nextLeft |-> 1, nextRight |-> -1]
NoLy == [successors |-> <<>>, notInserted |-> <<>>, unplacedNodes |-> {},
         alreadyPlacedInCurrentLayer |-> {}, alreadyPlacedInOtherLayers |-> {},
         currentLayer |-> <<>>, layers |-> <<>>, widthCurrent |-> 0, widthUp |-> 0]
NoCur == [li |-> 0, ni |-> 0, pi |-> 0, i |-> 0]
NoHist == [e |-> 0, n |-> 0, snap |-> <<>>]
NoOrig == [edges |-> <<>>, src |-> <<>>, dst |-> <<>>, reversed |-> <<>>,
           splitSrc |-> <<>>, splitDst |-> <<>>, layers |-> <<>>]

\* no configuration, no controller
NoCfg == [props |-> <<>>, loaded |-> FALSE, sub |-> <<>>, before |-> <<>>, first |-> <<>>,
          loads |-> 0, log |-> <<>>]

\* no graph given to the crossing minimizer
NoSweepGraph == [order |-> <<>>, east |-> <<>>, west |-> <<>>, rnd |-> 0, thoroughness |-> 0,
                 currentlyBest |-> <<>>, best |-> <<>>, crossings |-> 0]

NoCm == [g |-> NoSweepGraph, input |-> NoSweepGraph, selfRandom |-> 0, run |-> 0,
         seeds |-> <<>>, out |-> <<>>]

\* no graph given to the processors of the placement phases
NoPlace == [layers |-> <<>>, inLayerConstraint |-> <<>>, y |-> <<>>, x |-> <<>>, size |-> <<>>,
            edges |-> {}, bendPoints |-> <<>>, align |-> "NONE", favorStraightEdges |-> TRUE,
            before |-> <<>>, raised |-> ""]

\* the components specified further below are not in use
InitLater == cfg = NoCfg /\ cm = NoCm /\ place = NoPlace

\* LNode.__init__ for the nodes of nodeSeq, each with one EAST and one WEST port
InitNodes(nodeSeq) ==
    /\ nodes = nodeSeq
    /\ layer = [n \in NodeIds |-> 0]
    /\ type = [n \in NodeIds |-> "NORMAL"]
    /\ east = [n \in NodeIds |-> IF n \in Range(nodeSeq) THEN <<EastPort(n)>> ELSE <<>>]
    /\ west = [n \in NodeIds |-> IF n \in Range(nodeSeq) THEN <<WestPort(n)>> ELSE <<>>]
    /\ mark = [n \in NodeIds |-> 0]
    /\ indeg = [n \in NodeIds |-> 0]
    /\ outdeg = [n \in NodeIds |-> 0]

\* LEdge.__init__ and LPort.__init__: no edge is connected
NoEdges ==
    [src |-> [e \in EdgeIds |-> 0], dst |-> [e \in EdgeIds |-> 0],
     srcNode |-> [e \in EdgeIds |-> 0], dstNode |-> [e \in EdgeIds |-> 0],
     reversed |-> [e \in EdgeIds |-> FALSE], isSelfLoop |-> [e \in EdgeIds |-> FALSE],
     bendPoints |-> [e \in EdgeIds |-> <<>>],
     incomingEdges |-> [p \in PortIds |-> <<>>], outgoingEdges |-> [p \in PortIds |-> <<>>]]

InitEdgeState(E) ==
    /\ src = E.src
    /\ dst = E.dst
    /\ srcNode = E.srcNode
    /\ dstNode = E.dstNode
    /\ reversed = E.reversed
    /\ isSelfLoop = E.isSelfLoop
    /\ bendPoints = E.bendPoints
    /\ incomingEdges = E.incomingEdges
    /\ outgoingEdges = E.outgoingEdges

\* the ports of the nodes of the graph
Ports == UNION {Range(iterPorts(n)) : n \in Range(nodes)}

Connected(e) == src[e] # 0 /\ dst[e] # 0

(***************************************************************************)
(* Specification SpecEdge: any sequence of calls of LGraph.add_edge,       *)
(* LEdge.setSource, setTarget, setTargetAndInsertAtIndex and reverse on a  *)
(* graph of two nodes.                                                     *)
(***************************************************************************)
MutNodeSeq == <<1, 2>>

InitEdge ==
    /\ InitNodes(MutNodeSeq)
    /\ edges = <<>>
    /\ layers = <<>>
    /\ height = [n \in NodeIds |-> 0]
    /\ direction = [p \in PortIds |-> "None"]
    /\ InitEdgeState(NoEdges)
    /\ cb = NoCb
    /\ ly = NoLy
    /\ cur = NoCur
    /\ pc = "mutate"
    /\ InitLater
    /\ hist = NoHist
    /\ orig = NoOrig

MutAddEdge(p, q) ==
    /\ pc = "mutate"
    /\ Len(edges) < MutEdges
    /\ edges' = Append(edges, Len(edges) + 1)
    /\ SetEdgeState(add_edge(EdgeState, Len(edges) + 1, p, q))
    /\ hist' = NoHist
    /\ UNCHANGED <<nodes, layers, gNode, gIn, gDeg, gProc, pc, orig, gLater>>

MutSetSource(e, p) ==
    /\ pc = "mutate"
    /\ SetEdgeState(setSource(EdgeState, e, p))
    /\ hist' = NoHist
    /\ UNCHANGED <<gGraph, gNode, gIn, gDeg, gProc, pc, orig, gLater>>

MutSetTarget(e, p) ==
    /\ pc = "mutate"
    /\ SetEdgeState(setTarget(EdgeState, e, p))
    /\ hist' = NoHist
    /\ UNCHANGED <<gGraph, gNode, gIn, gDeg, gProc, pc, orig, gLater>>

\* the index is one the list has after the edge was taken out of it
MutSetTargetAndInsertAtIndex(e, p, index) ==
    /\ pc = "mutate"
    /\ p # 0 => index <= Len(Remove(incomingEdges[p], e))
    /\ p = 0 => index = 0
    /\ SetEdgeState(setTargetAndInsertAtIndex(EdgeState, e, p, index))
    /\ hist' = NoHist
    /\ UNCHANGED <<gGraph, gNode, gIn, gDeg, gProc, pc, orig, gLater>>

\* reverse reads both ports of the edge: it is called on connected edges.
\* hist counts the calls of reverse made on one edge in a row and keeps the
\* state before the first of them.
MutReverse(e, adaptPorts) ==
    /\ pc = "mutate"
    /\ Connected(e)
    /\ SetEdgeState(reverse(EdgeState, e, adaptPorts))
    /\ hist' = IF hist.e = e /\ hist.n = 1
               THEN [hist EXCEPT !.n = 2]
               ELSE [e |-> e, n |-> 1, snap |-> EdgeState]
    /\ UNCHANGED <<gGraph, gNode, gIn, gDeg, gProc, pc, orig, gLater>>

NextEdge ==
    \/ \E p \in Ports, q \in Ports : MutAddEdge(p, q)
    \/ \E e \in Range(edges), p \in Ports \cup {0} : MutSetSource(e, p)
    \/ \E e \in Range(edges), p \in Ports \cup {0} : MutSetTarget(e, p)
    \/ \E e \in Range(edges), p \in Ports \cup {0}, index \in 0..MutEdges :
           MutSetTargetAndInsertAtIndex(e, p, index)
    \/ \E e \in Range(edges), adaptPorts \in BOOLEAN : MutReverse(e, adaptPorts)

SpecEdge == InitEdge /\ [][NextEdge]_vars

(***************************************************************************)
(* Claims about the edge mutators.                                         *)
(***************************************************************************)
\* C7: after two calls of reverse in a row on an edge, the edge has the
\* source port, target port, cached source and target node and reversed flag
\* it had before the first call, and the incoming and the outgoing list of
\* both of its ports hold the same edges as before.
C7_ReverseTwiceRestores ==
    hist.n = 2 =>
        LET e == hist.e
            S == hist.snap
        IN /\ src[e] = S.src[e]
           /\ dst[e] = S.dst[e]
           /\ srcNode[e] = S.srcNode[e]
           /\ dstNode[e] = S.dstNode[e]
           /\ reversed[e] = S.reversed[e]
           /\ \A p \in {S.src[e], S.dst[e]} :
                  /\ Range(incomingEdges[p]) = Range(S.incomingEdges[p])
                  /\ Range(outgoingEdges[p]) = Range(S.outgoingEdges[p])

\* C7 witness: an edge was reversed twice in a row while its source port
\* also held the other edge of the graph
C7_Witness ==
    /\ hist.n = 2
    /\ Len(outgoingEdges[src[hist.e]]) = 2
    /\ src[hist.e] # dst[hist.e]

C9_SelfLoopFlag ==
    \A e \in Range(edges) :
        Connected(e) => (isSelfLoop[e] <=> srcNode[e] = dstNode[e])

(***************************************************************************)
(* LNodeLayer, LNode.setLayer, LGraph.append_layer.  A layer is known by   *)
(* its index in graph.layers; an operation takes the node lists of all     *)
(* layers and the layer field of all nodes as one record.                  *)
(***************************************************************************)
LayerState == [layers |-> layers, layer |-> layer]

\* LNodeLayer.__init__ with registerOnGraph: a new empty layer of the graph
newLayer(S) == [S EXCEPT !.layers = Append(@, <<>>)]

\* LNodeLayer.append
layerAppend(S, l, v) == [S EXCEPT !.layer[v] = l, !.layers[l] = Append(@, v)]

\* LNodeLayer.extend
RECURSIVE layerExtend(_, _, _)
layerExtend(S, l, iterable) ==
    IF iterable = <<>> THEN S
    ELSE layerExtend(layerAppend(S, l, Head(iterable)), l, Tail(iterable))

\* LNode.setLayer; "if self.layer" is false for None and for an empty layer
setLayer(S, n, l) ==
    IF S.layer[n] = l THEN S
    ELSE LET S1 == IF S.layer[n] # 0 /\ S.layers[S.layer[n]] # <<>>
                   THEN [S EXCEPT !.layers[S.layer[n]] = Remove(@, n)]
                   ELSE S
         IN layerAppend([S1 EXCEPT !.layer[n] = l], l, n)

RECURSIVE setLayerAll(_, _, _)
setLayerAll(S, ns, l) ==
    IF ns = <<>> THEN S ELSE setLayerAll(setLayer(S, Head(ns), l), Tail(ns), l)

\* LGraph.append_layer
append_layer(S, ns) == setLayerAll(newLayer(S), ns, Len(S.layers) + 1)

(***************************************************************************)
(* Specification SpecLayer: any sequence of calls of LNodeLayer(graph),    *)
(* LNodeLayer.append, LNodeLayer.extend, LGraph.append_layer and           *)
(* LNode.setLayer.                                                         *)
(***************************************************************************)
\* the lists of at most two nodes of the graph
NodeLists == {<<>>} \cup {<<a>> : a \in Range(nodes)}
                    \cup {<<a, b>> : a \in Range(nodes), b \in Range(nodes)}

InitLayer ==
    /\ InitNodes([i \in 1..LrNodes |-> i])
    /\ edges = <<>>
    /\ layers = <<>>
    /\ height = [n \in NodeIds |-> 0]
    /\ direction = [p \in PortIds |-> "None"]
    /\ InitEdgeState(NoEdges)
    /\ cb = NoCb
    /\ ly = NoLy
    /\ cur = NoCur
    /\ pc = "layers"
    /\ InitLater
    /\ hist = NoHist
    /\ orig = NoOrig

SetLayerState(S) ==
    /\ layers' = S.layers
    /\ layer' = S.layer
    /\ UNCHANGED <<nodes, edges, type, west, east, gIn, gDeg, gEdge, gProc, pc, hist, orig, gLater>>

LrNewLayer ==
    /\ pc = "layers"
    /\ Len(layers) < LrLayers
    /\ SetLayerState(newLayer(LayerState))

LrAppend(l, v) ==
    /\ pc = "layers"
    /\ Len(layers[l]) < LrLen
    /\ SetLayerState(layerAppend(LayerState, l, v))

LrExtend(l, iterable) ==
    /\ pc = "layers"
    /\ Len(layers[l]) + Len(iterable) <= LrLen
    /\ SetLayerState(layerExtend(LayerState, l, iterable))

LrAppendLayer(ns) ==
    /\ pc = "layers"
    /\ Len(layers) < LrLayers
    /\ SetLayerState(append_layer(LayerState, ns))

LrSetLayer(n, l) ==
    /\ pc = "layers"
    /\ Len(layers[l]) < LrLen
    /\ SetLayerState(setLayer(LayerState, n, l))

NextLayer ==
    \/ LrNewLayer
    \/ \E l \in 1..Len(layers), v \in Range(nodes) : LrAppend(l, v)
    \/ \E l \in 1..Len(layers), iterable \in NodeLists : LrExtend(l, iterable)
    \/ \E ns \in NodeLists : LrAppendLayer(ns)
    \/ \E n \in Range(nodes), l \in 1..Len(layers) : LrSetLayer(n, l)

SpecLayer == InitLayer /\ [][NextLayer]_vars

\* C10: every node in the node list of a layer has that layer as its layer
\* field, and no node is in the lists of two layers.
C10_NodeReportsLayer ==
    /\ \A l \in 1..Len(layers) : \A v \in Range(layers[l]) : layer[v] = l
    /\ \A l1, l2 \in 1..Len(layers) :
           l1 # l2 => Range(layers[l1]) \cap Range(layers[l2]) = {}

(***************************************************************************)
(* GreedyCycleBreaker.  The degrees, marks and work lists of the run are   *)
(* one record; the graph is not changed before the last loop of process.   *)
(***************************************************************************)
CbState == [mark |-> mark, indeg |-> indeg, outdeg |-> outdeg, sinks |-> cb.sinks,
            sources |-> cb.sources, unresolved |-> cb.unresolved]

\* UniqList.append: a list that holds no item twice
UniqList_append(s, x) == IF x \in Range(s) THEN s ELSE Append(s, x)

\* the edges of a list that are not marked as self-loops
filterSelfLoops(s) == SelectSeq(s, LAMBDA e : ~isSelfLoop[e])

\* LPort.iterEdges
iterEdges(p, filter) ==
    IF filter THEN filterSelfLoops(incomingEdges[p] \o outgoingEdges[p])
    ELSE incomingEdges[p] \o outgoingEdges[p]

\* LNode.initPortDegrees: indeg (incoming = TRUE) or outdeg of the ports of a list
RECURSIVE initPortDegrees(_, _)
initPortDegrees(ports, incoming) ==
    IF ports = <<>> THEN 0
    ELSE Len(filterSelfLoops(IF incoming THEN incomingEdges[Head(ports)]
                                         ELSE outgoingEdges[Head(ports)]))
         + initPortDegrees(Tail(ports), incoming)

\* GreedyCycleBreaker.initDegrees over the nodes of a list
RECURSIVE initDegrees(_, _)
initDegrees(D, ns) ==
    IF ns = <<>> THEN D
    ELSE LET n == Head(ns)
             i == initPortDegrees(iterPorts(n), TRUE)
             o == initPortDegrees(iterPorts(n), FALSE)
             D1 == [D EXCEPT !.indeg[n] = i, !.outdeg[n] = o]
             D2 == IF i # 0 /\ o = 0 THEN [D1 EXCEPT !.sinks = UniqList_append(@, n)]
                   ELSE IF i = 0 /\ o # 0
                        THEN [D1 EXCEPT !.sources = UniqList_append(@, n)]
                        ELSE [D1 EXCEPT !.unresolved = @ \cup {n}]
         IN initDegrees(D2, Tail(ns))

\* updateNeighbor without the test of the mark of the other node
updateNeighborOfRanked(D, node, isOutput, e) ==
    LET other == IF srcNode[e] = node THEN dstNode[e] ELSE srcNode[e]
    IN IF isOutput
       THEN LET D1 == [D EXCEPT !.indeg[other] = @ - 1]
            IN IF D1.indeg[other] <= 0 /\ D1.outdeg[other] > 0
               THEN [D1 EXCEPT !.unresolved = @ \ {other},
                               !.sources = UniqList_append(@, other)]
               ELSE D1
       ELSE LET D1 == [D EXCEPT !.outdeg[other] = @ - 1]
            IN IF D1.outdeg[other] <= 0 /\ D1.indeg[other] > 0
               THEN [D1 EXCEPT !.unresolved = @ \ {other},
                               !.sinks = UniqList_append(@, other)]
               ELSE D1

\* updateNeighbor with the two sides exchanged
updateNeighborOtherSide(D, node, isOutput, e) ==
    LET other == IF srcNode[e] = node THEN dstNode[e] ELSE srcNode[e]
    IN IF D.mark[other] # 0 THEN D
       ELSE IF ~isOutput
            THEN LET D1 == [D EXCEPT !.indeg[other] = @ - 1]
                 IN IF D1.indeg[other] <= 0 /\ D1.outdeg[other] > 0
                    THEN [D1 EXCEPT !.unresolved = @ \ {other},
                                    !.sources = UniqList_append(@, other)]
                    ELSE D1
            ELSE LET D1 == [D EXCEPT !.outdeg[other] = @ - 1]
                 IN IF D1.outdeg[other] <= 0 /\ D1.indeg[other] > 0
                    THEN [D1 EXCEPT !.unresolved = @ \ {other},
                                    !.sinks = UniqList_append(@, other)]
                    ELSE D1

\* the body of the edge loop of updateNeighbors for one edge of a port
updateNeighbor(D, node, isOutput, e) ==
    LET other == IF srcNode[e] = node THEN dstNode[e] ELSE srcNode[e]
    IN IF D.mark[other] # 0 THEN D
       ELSE IF isOutput
            THEN LET D1 == [D EXCEPT !.indeg[other] = @ - 1]
                 IN IF D1.indeg[other] <= 0 /\ D1.outdeg[other] > 0
                    THEN [D1 EXCEPT !.unresolved = @ \ {other},
                                    !.sources = UniqList_append(@, other)]
                    ELSE D1
            ELSE LET D1 == [D EXCEPT !.outdeg[other] = @ - 1]
                 IN IF D1.outdeg[other] <= 0 /\ D1.indeg[other] > 0
                    THEN [D1 EXCEPT !.unresolved = @ \ {other},
                                    !.sinks = UniqList_append(@, other)]
                    ELSE D1

RECURSIVE updateNeighborsOfPort(_, _, _, _)
updateNeighborsOfPort(D, node, isOutput, es) ==
    IF es = <<>> THEN D
    ELSE updateNeighborsOfPort(updateNeighbor(D, node, isOutput, Head(es)),
                               node, isOutput, Tail(es))

RECURSIVE updateNeighborsOfPorts(_, _, _)
updateNeighborsOfPorts(D, node, ports) ==
    IF ports = <<>> THEN D
    ELSE LET p == Head(ports)
         IN updateNeighborsOfPorts(
                updateNeighborsOfPort(D, node, outgoingEdges[p] # <<>>, iterEdges(p, TRUE)),
                node, Tail(ports))

\* GreedyCycleBreaker.updateNeighbors
updateNeighbors(D, node) == updateNeighborsOfPorts(D, node, iterPorts(node))

\* self.initial_order
initial_order(n) == IndexOf(nodes, n)

\* the key of max() in process, and the order of Python tuples on it
outflowKey(D, n) == <<D.outdeg[n] - D.indeg[n], initial_order(n)>>

keyLeq(a, b) == a[1] < b[1] \/ (a[1] = b[1] /\ a[2] <= b[2])

maxNode(D) ==
    CHOOSE n \in D.unresolved :
        \A m \in D.unresolved : keyLeq(outflowKey(D, m), outflowKey(D, n))

(***************************************************************************)
(* Specification SpecCB: GreedyCycleBreaker.process on any graph of at     *)
(* most CbNodes nodes and CbEdges edges, each edge added by add_edge from  *)
(* the EAST port of a node to the WEST port of a node.  The steps are the  *)
(* iterations of the loops of process.                                     *)
(***************************************************************************)
\* LGraph.add_edge for the edges i..Len(f) of a list of (source node, target node)
RECURSIVE BuildEdges(_, _, _)
BuildEdges(E, f, i) ==
    IF i > Len(f) THEN E
    ELSE BuildEdges(add_edge(E, i, EastPort(f[i][1]), WestPort(f[i][2])), f, i + 1)

InitCB ==
    /\ \E n \in 1..CbNodes :
         /\ InitNodes([i \in 1..n |-> i])
         /\ \E k \in 0..CbEdges :
              /\ edges = [i \in 1..k |-> i]
              /\ \E f \in [1..k -> (1..n) \X (1..n)] :
                   InitEdgeState(BuildEdges(NoEdges, f, 1))
    /\ layers = <<>>
    /\ height = [n \in NodeIds |-> 0]
    /\ direction = [p \in PortIds |-> "None"]
    /\ cb = NoCb
    /\ ly = NoLy
    /\ cur = NoCur
    /\ pc = "cbStart"
    /\ InitLater
    /\ hist = NoHist
    /\ orig = [NoOrig EXCEPT !.edges = edges, !.src = src, !.dst = dst]

SetCbState(D, nextLeft, nextRight) ==
    /\ mark' = D.mark
    /\ indeg' = D.indeg
    /\ outdeg' = D.outdeg
    /\ cb' = [sinks |-> D.sinks, sources |-> D.sources, unresolved |-> D.unresolved,
              nextLeft |-> nextLeft, nextRight |-> nextRight]

\* process up to the first test of the outer while loop
CBInitDegrees ==
    /\ pc = "cbStart"
    /\ SetCbState(initDegrees(CbState, nodes), 1, -1)
    /\ pc' = "cbSinks"
    /\ UNCHANGED <<gGraph, gNode, gIn, gEdge, ly, cur, hist, orig, gLater>>

\* one iteration of "while sinks"
CBSink ==
    /\ pc = "cbSinks" \/ (pc = "cbSources" /\ cb.sources = <<>>)
    /\ cb.sinks # <<>>
    /\ LET sink == cb.sinks[Len(cb.sinks)]
           D == [CbState EXCEPT !.sinks = SubSeq(@, 1, Len(@) - 1),
                                !.mark[sink] = cb.nextRight]
       IN SetCbState(updateNeighbors(D, sink), cb.nextLeft, cb.nextRight - 1)
    /\ pc' = "cbSinks"
    /\ UNCHANGED <<gGraph, gNode, gIn, gEdge, ly, cur, hist, orig, gLater>>

\* one iteration of "while sources"
CBSource ==
    /\ pc = "cbSources" \/ (pc = "cbSinks" /\ cb.sinks = <<>>)
    /\ cb.sources # <<>>
    /\ LET source == cb.sources[Len(cb.sources)]
           D == [CbState EXCEPT !.sources = SubSeq(@, 1, Len(@) - 1),
                                !.mark[source] = cb.nextLeft]
       IN SetCbState(updateNeighbors(D, source), cb.nextLeft + 1, cb.nextRight)
    /\ pc' = "cbSources"
    /\ UNCHANGED <<gGraph, gNode, gIn, gEdge, ly, cur, hist, orig, gLater>>

\* "if not sinks and not sources and unresolved"
CBMaxNode ==
    /\ pc \in {"cbSinks", "cbSources"}
    /\ cb.sinks = <<>> /\ cb.sources = <<>> /\ cb.unresolved # {}
    /\ LET n == maxNode(CbState)
           D == [CbState EXCEPT !.mark[n] = cb.nextLeft, !.unresolved = @ \ {n}]
       IN SetCbState(updateNeighbors(D, n), cb.nextLeft + 1, cb.nextRight)
    /\ pc' = "cbSinks"
    /\ UNCHANGED <<gGraph, gNode, gIn, gEdge, ly, cur, hist, orig, gLater>>

\* the end of the outer while loop and the shift of the negative marks
CBShift ==
    /\ pc \in {"cbSinks", "cbSources"}
    /\ cb.sinks = <<>> /\ cb.sources = <<>> /\ cb.unresolved = {}
    /\ mark' = [n \in NodeIds |->
                   IF n \in Range(nodes) /\ mark[n] < 0 THEN mark[n] + Len(nodes) + 1
                   ELSE mark[n]]
    /\ cur' = [cur EXCEPT !.ni = 1, !.pi = 1, !.i = 0]
    /\ pc' = "cbReverse"
    /\ UNCHANGED <<gGraph, gNode, gIn, indeg, outdeg, gEdge, cb, ly, hist, orig, gLater>>

\* the list the innermost for loop of process iterates over
cbEdgeList ==
    IF cur.ni <= Len(nodes) /\ cur.pi <= Len(iterPorts(nodes[cur.ni]))
    THEN outgoingEdges[iterPorts(nodes[cur.ni])[cur.pi]]
    ELSE <<>>

\* one iteration of "for edge in port.outgoingEdges": the list iterator
\* yields the item at its index in the list as the list is now.  The call
\* edge.reverse() names neither argument of LEdge.reverse: it raises
\* TypeError, which ends process with the graph as it is.  The other
\* outcomes are those of a call that names the arguments.
CBReverseEdge ==
    /\ pc = "cbReverse"
    /\ cur.i < Len(cbEdgeList)
    /\ LET edge == cbEdgeList[cur.i + 1]
       IN IF mark[nodes[cur.ni]] > mark[dstNode[edge]]
          THEN \/ /\ UNCHANGED gEdge
                  /\ cur' = NoCur
                  /\ pc' = "cbRaised"
               \/ /\ \E adaptPorts \in BOOLEAN :
                        SetEdgeState(reverse(EdgeState, edge, adaptPorts))
                  /\ cur' = [cur EXCEPT !.i = @ + 1]
                  /\ pc' = pc
          ELSE /\ UNCHANGED gEdge
               /\ cur' = [cur EXCEPT !.i = @ + 1]
               /\ pc' = pc
    /\ UNCHANGED <<gGraph, gNode, gIn, gDeg, cb, ly, hist, orig, gLater>>

\* the end of the list of a port: the next port, the next node or the end
CBNextPort ==
    /\ pc = "cbReverse"
    /\ cur.i >= Len(cbEdgeList)
    /\ IF cur.pi < Len(iterPorts(nodes[cur.ni]))
       THEN cur' = [cur EXCEPT !.pi = @ + 1, !.i = 0] /\ pc' = pc
       ELSE IF cur.ni < Len(nodes)
            THEN cur' = [cur EXCEPT !.ni = @ + 1, !.pi = 1, !.i = 0] /\ pc' = pc
            ELSE cur' = NoCur /\ pc' = "cbDone"
    /\ UNCHANGED <<gGraph, gNode, gIn, gDeg, gEdge, cb, ly, hist, orig, gLater>>

NextCB ==
    \/ CBInitDegrees
    \/ CBSink
    \/ CBSource
    \/ CBMaxNode
    \/ CBShift
    \/ CBReverseEdge
    \/ CBNextPort

SpecCB == InitCB /\ [][NextCB]_vars

\* the nodes an edge of a set connects, as pairs (source node, target node)
EdgePairs(es) == {<<srcNode[e], dstNode[e]>> : e \in es}

\* a topological sort of the nodes N with the edges R terminates
RECURSIVE TopologicalSortTerminates(_, _)
TopologicalSortTerminates(N, R) ==
    IF N = {} THEN TRUE
    ELSE LET S == {n \in N : ~\E m \in N : <<m, n>> \in R}
         IN IF S = {} THEN FALSE ELSE TopologicalSortTerminates(N \ S, R)

\* process has returned or raised
cbEnded == pc \in {"cbDone", "cbRaised"}

\* C1: after the greedy cycle breaker has processed a graph, the directed
\* graph of the edges whose reversed flag is false is acyclic (self-loops,
\* which the cycle breaker ignores, are left out of the graph).
C1_AcyclicAfterCycleBreaker ==
    cbEnded =>
        TopologicalSortTerminates(Range(nodes),
            EdgePairs({e \in Range(edges) : ~reversed[e] /\ srcNode[e] # dstNode[e]}))

(***************************************************************************)
(* MinWidthLayerer.  Node heights are integers; the widths of the layerer  *)
(* are kept multiplied by minimumNodeSize, which turns the comparisons of  *)
(* computeMinWidthLayering into comparisons of integers:                   *)
(*   widthCurrent >= ubw * avgSize  iff                                    *)
(*       (minimumNodeSize * widthCurrent) * len(nodes) >= ubw * sum(height)*)
(*   normHeight > outDeg * dummySize  iff  height > outDeg * SPACING       *)
(* maxWidth and the sums it is made of choose among several layerings;     *)
(* process computes one, as both configured values are not negative.       *)
(***************************************************************************)
LAYERING_MIN_WIDTH_UPPER_BOUND_ON_WIDTH == 10
LAYERING_MIN_WIDTH_UPPER_LAYER_ESTIMATION_SCALING_FACTOR == 1
SPACING_EDGE_EDGE == 5

\* the successors of a node as MinWidthLayerer.precalcSuccessors collects them
successorsOf(n) ==
    UNION {{dstNode[e] : e \in {x \in Range(iterEdges(p, TRUE)) :
                                    \/ direction[p] = "OUTPUT" /\ ~reversed[x]
                                    \/ direction[p] = "INPUT" /\ reversed[x]}}
           : p \in Range(iterPorts(n))}

precalcSuccessors(ns) == [n \in NodeIds |-> IF n \in Range(ns) THEN successorsOf(n) ELSE {}]

\* list.sort(key=...): a stable sort by ascending key
RECURSIVE sortByKey(_, _)
sortByKey(s, key) ==
    IF s = <<>> THEN s
    ELSE LET least == CHOOSE i \in 1..Len(s) :
                          \A j \in 1..Len(s) : key[s[i]] < key[s[j]]
                                               \/ (key[s[i]] = key[s[j]] /\ i <= j)
         IN <<s[least]>> \o sortByKey(DeleteAt(s, least), key)

RECURSIVE sumOfHeights(_)
sumOfHeights(ns) == IF ns = <<>> THEN 0 ELSE height[Head(ns)] + sumOfHeights(Tail(ns))

\* the nodes MinWidthLayerer.selectNode can return: it returns the first one
\* in the iteration order of a set
selectNode(ns, targets) == {n \in ns : ly.successors[n] \subseteq targets}

\* the test of line 285-288, after currentNode was placed
conditionGoUp(currentNode, unplacedNodes, widthCurrent, widthUp) ==
    LET N == Len(nodes)
        ubwH == LAYERING_MIN_WIDTH_UPPER_BOUND_ON_WIDTH * sumOfHeights(nodes)
    IN \/ unplacedNodes = {}
       \/ /\ widthCurrent * N >= ubwH
          /\ height[currentNode] > outdeg[currentNode] * SPACING_EDGE_EDGE
       \/ widthUp * N >= LAYERING_MIN_WIDTH_UPPER_LAYER_ESTIMATION_SCALING_FACTOR * ubwH

\* lines 289-309: the current layer is finished
goUp(L) == [L EXCEPT !.layers = Append(@, L.currentLayer),
                     !.currentLayer = <<>>,
                     !.alreadyPlacedInOtherLayers = @ \cup L.alreadyPlacedInCurrentLayer,
                     !.alreadyPlacedInCurrentLayer = {},
                     !.widthCurrent = L.widthUp,
                     !.widthUp = 0]

\* "for layerList in reversed(candidateLayering): graph.append_layer(layerList)"
RECURSIVE appendLayersReversed(_, _)
appendLayersReversed(S, ls) ==
    IF ls = <<>> THEN S
    ELSE appendLayersReversed(append_layer(S, ls[Len(ls)]), SubSeq(ls, 1, Len(ls) - 1))

(***************************************************************************)
(* Specification SpecLayerer: MinWidthLayerer.process on any graph of at   *)
(* most LyNodes nodes and LyEdges edges without a cycle other than         *)
(* self-loops, where some edges may have been reversed before.  The ports  *)
(* have the directions of one of PortDirections.  The steps are the        *)
(* iterations of the while loop of computeMinWidthLayering.                *)
(***************************************************************************)
\* LEdge.reverse(graph, False) for the edges of R among the edges i..k
RECURSIVE ReverseAll(_, _, _, _)
ReverseAll(E, R, i, k) ==
    IF i > k THEN E
    ELSE ReverseAll(IF i \in R THEN reverse(E, i, FALSE) ELSE E, R, i + 1, k)

\* LNode.addPort(name, direction, side): EAST ports with direction d[1] and
\* WEST ports with direction d[2]; the second is what
\* TestGraphCreator.addPortOnSide creates
PortDirections == {<<"OUTPUT", "INPUT">>, <<"None", "None">>, <<"INPUT", "OUTPUT">>}

InitLayerer ==
    /\ \E n \in 1..LyNodes :
         /\ InitNodes([i \in 1..n |-> i])
         /\ \E h \in [1..n -> 0..LyMaxHeight] :
              height = [i \in NodeIds |-> IF i <= n THEN h[i] ELSE 0]
         /\ \E k \in 0..LyEdges :
              /\ edges = [i \in 1..k |-> i]
              /\ \E f \in [1..k -> (1..n) \X (1..n)] :
                   \E R \in SUBSET {i \in 1..k : f[i][1] # f[i][2]} :
                       LET E == ReverseAll(BuildEdges(NoEdges, f, 1), R, 1, k)
                       IN /\ TopologicalSortTerminates(1..n,
                                 {<<E.srcNode[e], E.dstNode[e]>> :
                                      e \in {x \in 1..k : E.srcNode[x] # E.dstNode[x]}})
                          /\ InitEdgeState(E)
    /\ \E d \in PortDirections :
         direction = [p \in PortIds |-> IF p = EastPort(getNode(p)) THEN d[1] ELSE d[2]]
    /\ layers = <<>>
    /\ cb = NoCb
    /\ ly = NoLy
    /\ cur = NoCur
    /\ pc = "lyStart"
    /\ InitLater
    /\ hist = NoHist
    /\ orig = NoOrig

\* process up to the first test of the while loop of computeMinWidthLayering
LyStart ==
    /\ pc = "lyStart"
    /\ LET newIndeg == [n \in NodeIds |-> IF n \in Range(nodes)
                                          THEN initPortDegrees(iterPorts(n), TRUE)
                                          ELSE indeg[n]]
           newOutdeg == [n \in NodeIds |-> IF n \in Range(nodes)
                                           THEN initPortDegrees(iterPorts(n), FALSE)
                                           ELSE outdeg[n]]
           notInserted == sortByKey(nodes, newOutdeg)
       IN /\ indeg' = newIndeg
          /\ outdeg' = newOutdeg
          /\ nodes' = notInserted
          /\ ly' = [NoLy EXCEPT !.successors = precalcSuccessors(nodes),
                                !.notInserted = notInserted,
                                !.unplacedNodes = Range(notInserted)]
    /\ pc' = "lyLoop"
    /\ UNCHANGED <<edges, layers, gNode, gIn, mark, gEdge, cb, cur, hist, orig, gLater>>

\* an iteration of the while loop in which selectNode returns a node
LyPlaceNode(currentNode) ==
    /\ pc = "lyLoop"
    /\ currentNode \in selectNode(ly.unplacedNodes, ly.alreadyPlacedInOtherLayers)
    /\ LET L == [ly EXCEPT
                   !.unplacedNodes = @ \ {currentNode},
                   !.currentLayer = Append(@, currentNode),
                   !.alreadyPlacedInCurrentLayer = @ \cup {currentNode},
                   !.widthCurrent = @ + height[currentNode]
                                      - outdeg[currentNode] * SPACING_EDGE_EDGE,
                   !.widthUp = @ + indeg[currentNode] * SPACING_EDGE_EDGE]
       IN ly' = IF conditionGoUp(currentNode, L.unplacedNodes, L.widthCurrent, L.widthUp)
                THEN goUp(L) ELSE L
    /\ UNCHANGED <<gGraph, gNode, gIn, gDeg, gEdge, cb, cur, pc, hist, orig, gLater>>

\* an iteration of the while loop in which selectNode returns None
LyNoNode ==
    /\ pc = "lyLoop"
    /\ ly.unplacedNodes # {}
    /\ selectNode(ly.unplacedNodes, ly.alreadyPlacedInOtherLayers) = {}
    /\ IF ly.currentLayer = <<>>
       THEN pc' = "AssertionError" /\ ly' = ly
       ELSE pc' = pc /\ ly' = goUp(ly)
    /\ UNCHANGED <<gGraph, gNode, gIn, gDeg, gEdge, cb, cur, hist, orig, gLater>>

\* the end of the while loop and the rest of process
LyAppendLayers ==
    /\ pc = "lyLoop"
    /\ ly.unplacedNodes = {}
    /\ LET S == appendLayersReversed(LayerState, ly.layers)
       IN layers' = S.layers /\ layer' = S.layer
    /\ pc' = "lyDone"
    /\ UNCHANGED <<nodes, edges, type, west, east, gIn, gDeg, gEdge, gProc, hist, orig, gLater>>

NextLayerer ==
    \/ LyStart
    \/ \E currentNode \in Range(nodes) : LyPlaceNode(currentNode)
    \/ LyNoNode
    \/ LyAppendLayers

SpecLayerer == InitLayerer /\ [][NextLayerer]_vars

\* C2: after the MinWidth layerer has processed a graph without cycles,
\* every edge that is neither a self-loop nor reversed has its source node in
\* a layer of lower index than its target node.
C2_EdgesPointToHigherLayer ==
    pc = "lyDone" =>
        \A e \in Range(edges) :
            (srcNode[e] # dstNode[e] /\ ~reversed[e]) => layer[srcNode[e]] < layer[dstNode[e]]

(***************************************************************************)
(* LongEdgeSplitter, LongEdgeJoiner and ReversedEdgeRestorer.              *)
(***************************************************************************)
\* the test below with "is nextLayer" for "is not nextLayer"
needsSplitNext(targetLayer, thisLayer, nextLayer) ==
    targetLayer # thisLayer /\ targetLayer = nextLayer

\* the test of LongEdgeSplitter.process on the layer of the target of an edge

needsSplit(targetLayer, thisLayer, nextLayer) ==
    targetLayer # thisLayer /\ targetLayer # nextLayer

\* the part of the state LongEdgeSplitter changes, as one record
GraphState ==
    [nodes |-> nodes, edges |-> edges, layers |-> layers, layer |-> layer, type |-> type,
     west |-> west, east |-> east, direction |-> direction, E |-> EdgeState]

\* LongEdgeSplitter.createDummyNode: the new node is the last of graph.nodes
createDummyNode(G, targetLayer) ==
    LET dummyNode == Len(G.nodes) + 1
        S == setLayer([layers |-> G.layers, layer |-> G.layer], dummyNode, targetLayer)
    IN [G EXCEPT !.nodes = Append(@, dummyNode),
                 !.type[dummyNode] = "LONG_EDGE",
                 !.layers = S.layers,
                 !.layer = S.layer]

\* splitEdge with the new edge before the dummy node and the split edge behind it
splitEdgeNewFirst(G, edge, dummyNode) ==
    LET oldEdgeSource == G.E.src[edge]
        dummyInput == WestPort(dummyNode)
        dummyOutput == EastPort(dummyNode)
        dummyEdge == Len(G.edges) + 1
    IN [G EXCEPT !.west[dummyNode] = <<dummyInput>>,
                 !.east[dummyNode] = <<dummyOutput>>,
                 !.direction[dummyInput] = "INPUT",
                 !.direction[dummyOutput] = "OUTPUT",
                 !.E = add_edge(setSource(G.E, edge, dummyOutput),
                                dummyEdge, oldEdgeSource, dummyInput),
                 !.edges = Append(@, dummyEdge)]

\* LongEdgeSplitter.splitEdge with the dummy node createDummyNode has just made
splitEdge(G, edge, dummyNode) ==
    LET oldEdgeTarget == G.E.dst[edge]
        dummyInput == WestPort(dummyNode)
        dummyOutput == EastPort(dummyNode)
        dummyEdge == Len(G.edges) + 1
    IN [G EXCEPT !.west[dummyNode] = <<dummyInput>>,
                 !.east[dummyNode] = <<dummyOutput>>,
                 !.direction[dummyInput] = "INPUT",
                 !.direction[dummyOutput] = "OUTPUT",
                 !.E = add_edge(setTarget(G.E, edge, dummyInput),
                                dummyEdge, dummyOutput, oldEdgeTarget),
                 !.edges = Append(@, dummyEdge)]

\* "for edge in port.outgoingEdges" of LongEdgeSplitter.process from the
\* index i (from 0) on: the iterator reads the list as it is now
RECURSIVE splitEdgesOfPort(_, _, _, _, _)
splitEdgesOfPort(G, port, i, thisLayer, nextLayer) ==
    IF i >= Len(G.E.outgoingEdges[port]) THEN G
    ELSE LET edge == G.E.outgoingEdges[port][i + 1]
             G1 == IF needsSplit(G.layer[G.E.dstNode[edge]], thisLayer, nextLayer)
                   THEN splitEdge(createDummyNode(G, nextLayer), edge, Len(G.nodes) + 1)
                   ELSE G
         IN splitEdgesOfPort(G1, port, i + 1, thisLayer, nextLayer)

\* "for port in node.iterPorts()" of LongEdgeSplitter.process
RECURSIVE splitEdgesOfPorts(_, _, _, _)
splitEdgesOfPorts(G, ports, thisLayer, nextLayer) ==
    IF ports = <<>> THEN G
    ELSE splitEdgesOfPorts(splitEdgesOfPort(G, Head(ports), 0, thisLayer, nextLayer),
                           Tail(ports), thisLayer, nextLayer)

\* the deletion below without "reversed"; an index past the end deletes nothing
RECURSIVE deleteIndexesForward(_, _)
deleteIndexesForward(l, toRemoveIndexes) ==
    IF toRemoveIndexes = <<>> THEN l
    ELSE deleteIndexesForward(DeleteAt(l, Head(toRemoveIndexes) + 1), Tail(toRemoveIndexes))

\* "for i in reversed(toRemoveIndexes): del layer[i]" of LongEdgeJoiner.process,
\* the indexes counted from 0
RECURSIVE deleteIndexes(_, _)
deleteIndexes(l, toRemoveIndexes) ==
    IF toRemoveIndexes = <<>> THEN l
    ELSE deleteIndexes(DeleteAt(l, toRemoveIndexes[Len(toRemoveIndexes)] + 1),
                       SubSeq(toRemoveIndexes, 1, Len(toRemoveIndexes) - 1))

\* the iteration below without "layeredGraph.edges.remove(droppedEdge)"
joinEdgesKeepsDropped(J, longEdgeDummy) ==
    LET survivingEdge == J.E.incomingEdges[west[longEdgeDummy][1]][1]
        droppedEdge == J.E.outgoingEdges[east[longEdgeDummy][1]][1]
        targetPort == J.E.dst[droppedEdge]
        droppedEdgeListIndex == IndexOf(J.E.incomingEdges[targetPort], droppedEdge) - 1
        E1 == setTargetAndInsertAtIndex(J.E, survivingEdge, targetPort, droppedEdgeListIndex)
        E2 == setTarget(setSource(E1, droppedEdge, 0), droppedEdge, 0)
        E3 == [E2 EXCEPT !.bendPoints[survivingEdge] = @ \o E2.bendPoints[droppedEdge]]
    IN [E |-> E3, edges |-> J.edges]

\* one iteration of the while loop of LongEdgeJoiner.joinAt on the edge
\* state J.E and the edge list J.edges of the graph; the graph's
\* unnecessaryBendpoints is False, as LGraph.__init__ leaves it
joinEdges(J, longEdgeDummy) ==
    LET survivingEdge == J.E.incomingEdges[west[longEdgeDummy][1]][1]
        droppedEdge == J.E.outgoingEdges[east[longEdgeDummy][1]][1]
        targetPort == J.E.dst[droppedEdge]
        droppedEdgeListIndex == IndexOf(J.E.incomingEdges[targetPort], droppedEdge) - 1
        E1 == setTargetAndInsertAtIndex(J.E, survivingEdge, targetPort, droppedEdgeListIndex)
        E2 == setTarget(setSource(E1, droppedEdge, 0), droppedEdge, 0)
        E3 == [E2 EXCEPT !.bendPoints[survivingEdge] = @ \o E2.bendPoints[droppedEdge]]
    IN [E |-> E3, edges |-> Remove(J.edges, droppedEdge)]

\* LongEdgeJoiner.joinAt: edgeCount iterations of the while loop
RECURSIVE joinAt(_, _, _)
joinAt(J, longEdgeDummy, edgeCount) ==
    IF edgeCount = 0 THEN J
    ELSE joinAt(joinEdges(J, longEdgeDummy), longEdgeDummy, edgeCount - 1)

\* the body below without "if edge.reversed"
restoreEdgeAlways(E, e) == reverse(E, e, FALSE)

\* the body of the loop of ReversedEdgeRestorer.process
restoreEdge(E, e) == IF E.reversed[e] THEN reverse(E, e, FALSE) ELSE E

\* "for i, node in enumerate(layer)" of LongEdgeJoiner.process from the
\* index i (from 0) on; J.toRemoveIndexes collects the indexes of the dummies
RECURSIVE joinLayer(_, _, _)
joinLayer(J, l, i) ==
    IF i >= Len(l) THEN J
    ELSE LET node == l[i + 1]
             J1 == joinAt([E |-> J.E, edges |-> J.edges], node,
                          Len(J.E.incomingEdges[west[node][1]]))
         IN joinLayer(IF type[node] = "LONG_EDGE"
                      THEN [E |-> J1.E, edges |-> J1.edges,
                            toRemoveIndexes |-> Append(J.toRemoveIndexes, i)]
                      ELSE J,
                      l, i + 1)

\* "for edge in layeredGraph.edges" of ReversedEdgeRestorer.process
RECURSIVE restoreEdges(_, _)
restoreEdges(E, es) ==
    IF es = <<>> THEN E ELSE restoreEdges(restoreEdge(E, Head(es)), Tail(es))

(***************************************************************************)
(* Specification SpecLong: LongEdgeSplitter.process, then                  *)
(* LongEdgeJoiner.process, then ReversedEdgeRestorer.process on any graph  *)
(* of at most LeNodes nodes in at most LeLayers layers and at most LeEdges *)
(* edges, some of which were added the other way round and then reversed.  *)
(* The nodes are numbered layer by layer.  The steps are the iterations of *)
(* the loops over the nodes and layers.                                    *)
(***************************************************************************)
InitLong ==
    /\ \E n \in 1..LeNodes :
         /\ nodes = [i \in 1..n |-> i]
         /\ east = [i \in NodeIds |-> IF i <= n THEN <<EastPort(i)>> ELSE <<>>]
         /\ west = [i \in NodeIds |-> IF i <= n THEN <<WestPort(i)>> ELSE <<>>]
         /\ \E nLayers \in 1..LeLayers :
              \E lay \in [1..n -> 1..nLayers] :
                  /\ \A i, j \in 1..n : i < j => lay[i] <= lay[j]
                  /\ layers = [l \in 1..nLayers |->
                                  SelectSeq([i \in 1..n |-> i], LAMBDA x : lay[x] = l)]
                  /\ layer = [i \in NodeIds |-> IF i <= n THEN lay[i] ELSE 0]
         /\ \E k \in 0..LeEdges :
              /\ edges = [i \in 1..k |-> i]
              /\ \E f \in [1..k -> (1..n) \X (1..n)] :
                   \E R \in SUBSET {i \in 1..k : f[i][1] # f[i][2]} :
                       \E E0 \in {BuildEdges(NoEdges, f, 1)} :
                           \E E \in {ReverseAll(E0, R, 1, k)} :
                               /\ InitEdgeState(E)
                               /\ orig = [edges |-> edges, src |-> E0.src, dst |-> E0.dst,
                                          reversed |-> E.reversed,
                                          splitSrc |-> E.src, splitDst |-> E.dst,
                                          layers |-> layers]
    /\ type = [i \in NodeIds |-> "NORMAL"]
    /\ height = [i \in NodeIds |-> 0]
    /\ mark = [i \in NodeIds |-> 0]
    /\ indeg = [i \in NodeIds |-> 0]
    /\ outdeg = [i \in NodeIds |-> 0]
    /\ direction = [p \in PortIds |-> IF p = EastPort(getNode(p)) THEN "OUTPUT" ELSE "INPUT"]
    /\ cb = NoCb
    /\ ly = NoLy
    /\ cur = NoCur
    /\ pc = "leStart"
    /\ InitLater
    /\ hist = NoHist

\* LongEdgeSplitter.process up to the first node
LeSplitterStart ==
    /\ pc = "leStart"
    /\ pc' = IF Len(layers) <= 2 THEN "leJoin" ELSE "leSplit"
    /\ cur' = [NoCur EXCEPT !.li = 1, !.ni = 1]
    /\ UNCHANGED <<gGraph, gNode, gIn, gDeg, gEdge, cb, ly, hist, orig, gLater>>

\* one iteration of "for node in layer" of LongEdgeSplitter.process
LeSplitNode ==
    /\ pc = "leSplit"
    /\ cur.ni <= Len(layers[cur.li])
    /\ \E G \in {splitEdgesOfPorts(GraphState, iterPorts(layers[cur.li][cur.ni]),
                                    cur.li, cur.li + 1)} :
          /\ nodes' = G.nodes
          /\ edges' = G.edges
          /\ layers' = G.layers
          /\ layer' = G.layer
          /\ type' = G.type
          /\ west' = G.west
          /\ east' = G.east
          /\ direction' = G.direction
          /\ SetEdgeState(G.E)
    /\ cur' = [cur EXCEPT !.ni = @ + 1]
    /\ UNCHANGED <<height, gDeg, cb, ly, pc, hist, orig, gLater>>

\* the end of a layer: "layer = nextLayer", or the end of process
LeSplitNextLayer ==
    /\ pc = "leSplit"
    /\ cur.ni > Len(layers[cur.li])
    /\ IF cur.li + 1 < Len(layers)
       THEN cur' = [cur EXCEPT !.li = @ + 1, !.ni = 1] /\ pc' = pc
       ELSE cur' = [NoCur EXCEPT !.li = 1, !.ni = 1] /\ pc' = "leJoin"
    /\ UNCHANGED <<gGraph, gNode, gIn, gDeg, gEdge, cb, ly, hist, orig, gLater>>

\* one iteration of "for layer in layeredGraph.layers" of
\* LongEdgeJoiner.process, and its return after the last layer
LeJoinLayer ==
    /\ pc = "leJoin"
    /\ cur.li <= Len(layers)
    /\ \E J \in {joinLayer([E |-> EdgeState, edges |-> edges, toRemoveIndexes |-> <<>>],
                            layers[cur.li], 0)} :
          /\ SetEdgeState(J.E)
          /\ edges' = J.edges
          /\ layers' = [layers EXCEPT ![cur.li] = deleteIndexes(@, J.toRemoveIndexes)]
    /\ IF cur.li < Len(layers)
       THEN cur' = [cur EXCEPT !.li = @ + 1] /\ pc' = pc
       ELSE cur' = NoCur /\ pc' = "leRestore"
    /\ UNCHANGED <<nodes, gNode, gIn, gDeg, cb, ly, hist, orig, gLater>>

\* ReversedEdgeRestorer.process
LeRestore ==
    /\ pc = "leRestore"
    /\ \E E \in {restoreEdges(EdgeState, edges)} : SetEdgeState(E)
    /\ pc' = "leDone"
    /\ UNCHANGED <<gGraph, gNode, gIn, gDeg, gProc, hist, orig, gLater>>

NextLong ==
    \/ LeSplitterStart
    \/ LeSplitNode
    \/ LeSplitNextLayer
    \/ LeJoinLayer
    \/ LeRestore

SpecLong == InitLong /\ [][NextLong]_vars

\* LongEdgeSplitter.process has returned and LongEdgeJoiner.process has not begun
afterSplitter == pc = "leJoin" /\ cur.li = 1

\* LongEdgeJoiner.process has returned and ReversedEdgeRestorer.process has not begun
afterJoiner == pc = "leRestore"

\* the nodes of type LONG_EDGE the splitter has added to the graph
longEdgeDummies == {n \in Range(nodes) : type[n] = "LONG_EDGE"}

C5_ReversedEdgesRestored ==
    pc = "leDone" =>
        \A e \in Range(edges) :
            /\ ~reversed[e]
            /\ src[e] = orig.src[e]
            /\ dst[e] = orig.dst[e]

C5_Witness ==
    /\ pc = "leDone"
    /\ \E e \in Range(edges) : orig.reversed[e] /\ src[e] = orig.src[e]

MAIN_PHASE_NAMES ==
    <<"p1_cycle_breaking", "p2_layering", "p3_node_ordering", "p4_node_placement",
      "p5_edge_routing">>

\* the list ["_before", "", "_after"] of iterProcessors
SubPhaseNames == <<"_before", "", "_after">>

\* the property phaseName + subPhaseName
PropOf(phase, subPhase) == (phase - 1) * Len(SubPhaseNames) + subPhase

Props == 1..(Len(MAIN_PHASE_NAMES) * Len(SubPhaseNames))

\* LayoutProcessorConfiguration.__init__ without arguments
NoProps == [p \in Props |-> <<>>]

\* LayoutProcessorConfiguration._merge
_merge(my, other, propName) ==
    IF other[propName] = <<>> THEN my
    ELSE IF my[propName] = <<>> THEN [my EXCEPT ![propName] = other[propName]]
    ELSE [my EXCEPT ![propName] = @ \o other[propName]]

\* LayoutProcessorConfiguration._merge_triplet
_merge_triplet(my, other, phase) ==
    _merge(_merge(_merge(my, other, PropOf(phase, 1)), other, PropOf(phase, 2)),
           other, PropOf(phase, Len(SubPhaseNames)))

\* "for phase in self.MAIN_PHASE_NAMES" of merge from the phase given on
RECURSIVE mergePhases(_, _, _)
mergePhases(my, other, phase) ==
    IF phase > Len(MAIN_PHASE_NAMES) THEN my
    ELSE mergePhases(_merge_triplet(my, other, phase), other, phase + 1)

\* LayoutProcessorConfiguration.merge
merge(my, other) == mergePhases(my, other, 1)

\* LayoutProcessorConfiguration.iterProcessors from the property p on: the
\* pairs of a property and a processor in it
RECURSIVE iterProcessorsFrom(_, _)
iterProcessorsFrom(props, p) ==
    IF p > Len(props) THEN <<>>
    ELSE [i \in 1..Len(props[p]) |-> [prop |-> p, proc |-> props[p][i]]]
         \o iterProcessorsFrom(props, p + 1)

iterProcessors(props) == iterProcessorsFrom(props, 1)

\* the loop of LayoutProcessorConfiguration.load from the i-th processor of
\* the property p on.  The generator reads a property when it reaches it and
\* walks the list object, which merge extends in place: a processor merged
\* into the property being walked or into a later one is walked as well.
RECURSIVE loadFrom(_, _, _, _)
loadFrom(props, sub, p, i) ==
    IF p > Len(props) THEN props
    ELSE IF i > Len(props[p]) THEN loadFrom(props, sub, p + 1, 1)
    ELSE LET proc == props[p][i]
             subConfig == sub[proc]
         IN IF subConfig = <<>> THEN loadFrom(props, sub, p, i + 1)
            ELSE loadFrom(merge(props, loadFrom(subConfig, sub, 1, 1)), sub, p, i + 1)

\* LayoutProcessorConfiguration.load behind its assertion
load(props, sub) == loadFrom(props, sub, 1, 1)

\* a configuration with the one processor proc in the property p
OneProc(p, proc) == [NoProps EXCEPT ![p] = <<proc>>]

\* the graph variables when no graph is in use
NoGraph ==
    /\ InitNodes(<<>>)
    /\ edges = <<>>
    /\ layers = <<>>
    /\ height = [n \in NodeIds |-> 0]
    /\ direction = [p \in PortIds |-> "None"]
    /\ InitEdgeState(NoEdges)
    /\ cb = NoCb
    /\ ly = NoLy
    /\ cur = NoCur
    /\ hist = NoHist
    /\ orig = NoOrig

(***************************************************************************)
(* Specification SpecConfig: a configuration with one processor, of any of *)
(* CfKinds kinds in any property of the first CfPhases phases, is given to *)
(* a LayoutProcessor, perhaps to a second one, and run.  The nested        *)
(* configuration of a kind is None or names one processor of a higher      *)
(* kind, so that the recursion of load ends.                               *)
(***************************************************************************)
CfProps == 1..(CfPhases * Len(SubPhaseNames))

SubConfigs(k) ==
    {<<>>} \cup {OneProc(p, q) : p \in CfProps, q \in (k + 1)..CfKinds}

InitConfig ==
    /\ NoGraph
    /\ cm = NoCm
    /\ place = NoPlace
    /\ pc = "cfNew"
    /\ \E p \in CfProps, k \in 1..CfKinds :
         \E s1 \in [1..CfKinds -> UNION {SubConfigs(j) : j \in 1..CfKinds}] :
             /\ \A j \in 1..CfKinds : s1[j] \in SubConfigs(j)
             /\ cfg = [NoCfg EXCEPT !.props = OneProc(p, k), !.sub = s1,
                                    !.before = OneProc(p, k)]

\* LayoutProcessor.__init__ with a configuration that was not loaded yet
CfLoad ==
    /\ pc = "cfNew"
    /\ \E loadedProps \in {load(cfg.props, cfg.sub)} :
          cfg' = [cfg EXCEPT !.props = loadedProps, !.loaded = TRUE,
                             !.first = loadedProps, !.loads = 1]
    /\ pc' = "cfLoaded"
    /\ UNCHANGED <<gGraph, gNode, gIn, gDeg, gEdge, gProc, hist, orig, cm, place>>

\* LayoutProcessor.__init__ with the loaded configuration once more.  The
\* assert statement of load is executed when __debug__ is true and is not
\* compiled when the interpreter runs with -O.
CfLoadAgain(debug) ==
    /\ pc = "cfLoaded"
    /\ cfg.loads = 1
    /\ IF debug /\ cfg.loaded
       THEN /\ pc' = "AssertionError"
            /\ cfg' = [cfg EXCEPT !.loads = @ + 1]
       ELSE /\ pc' = pc
            /\ cfg' = [cfg EXCEPT !.props = load(cfg.props, cfg.sub), !.loaded = TRUE,
                                  !.loads = @ + 1]
    /\ UNCHANGED <<gGraph, gNode, gIn, gDeg, gEdge, gProc, hist, orig, cm, place>>

\* LayoutProcessor.run; the log lists the calls of process
CfRun ==
    /\ pc = "cfLoaded"
    /\ cfg' = [cfg EXCEPT !.log = iterProcessors(cfg.props)]
    /\ pc' = "cfDone"
    /\ UNCHANGED <<gGraph, gNode, gIn, gDeg, gEdge, gProc, hist, orig, cm, place>>

NextConfig ==
    \/ CfLoad
    \/ \E debug \in BOOLEAN : CfLoadAgain(debug)
    \/ CfRun

SpecConfig == InitConfig /\ [][NextConfig]_vars

\* the processors the configuration asks for: the processors of props and,
\* for each of them, the processors its nested configuration asks for
RECURSIVE askedFor(_, _, _)
askedFor(k, props, sub) ==
    LET ps == iterProcessors(props)
        nested[i \in 0..Len(ps)] ==
            IF i = 0 THEN 0
            ELSE nested[i - 1] + (IF ps[i].proc = k THEN 1 ELSE 0)
                 + (IF sub[ps[i].proc] = <<>> THEN 0 ELSE askedFor(k, sub[ps[i].proc], sub))
    IN nested[Len(ps)]

\* the number of calls of process on a processor of kind k
executed(k) == Cardinality({i \in 1..Len(cfg.log) : cfg.log[i].proc = k})

\* C11: a run after the load of a configuration executes every processor
\* the configuration and the nested configurations ask for exactly once, in
\* the order of the phases and, within a phase, before, main, after
C11_EveryProcessorRunsOnce ==
    (pc = "cfDone" /\ cfg.loads = 1) =>
        /\ \A k \in 1..CfKinds : executed(k) = askedFor(k, cfg.before, cfg.sub)
        /\ \A i, j \in 1..Len(cfg.log) : i < j => cfg.log[i].prop <= cfg.log[j].prop

\* C12: a second load of a loaded configuration returns and leaves every
\* processor list as it was after the first load
C12_LoadIsIdempotent ==
    cfg.loads >= 2 => (pc # "AssertionError" /\ cfg.props = cfg.first)

(***************************************************************************)
(* LayerSweepCrossingMinimizer.  The graphs have CmLayers layers of        *)
(* CmWidth nodes, node n in layer CmLayerOf(n), and every edge goes from a *)
(* layer to the next one through a port of its own on the EAST side of its *)
(* source and on the WEST side of its target, so that an edge <<u, v>>     *)
(* also names its two ports.  There are no nested graphs, in-layer edges   *)
(* or north/south ports.                                                   *)
(***************************************************************************)
CmNodeIds == 1..(CmLayers * CmWidth)
CmLayerOf(n) == (n - 1) \div CmWidth + 1
CmPairs == {e \in CmNodeIds \X CmNodeIds : CmLayerOf(e[2]) = CmLayerOf(e[1]) + 1}

\* random.Random: the state is a number and a draw steps a linear
\* congruential generator; random() returns the new state, seed(a) sets it
Rnd == 0..(RndMod - 1)
random(r) == (5 * r + 3) % RndMod
getrandbits1(r) == IF 2 * random(r) >= RndMod THEN 1 ELSE 0
RECURSIVE randomTimes(_, _)
randomTimes(r, k) == IF k = 0 THEN r ELSE randomTimes(random(r), k - 1)

\* fractions <<numerator, denominator>> with a positive denominator
RatLess(a, b) == a[1] * b[2] < b[1] * a[2]
RatMean(a, b) == <<a[1] * b[2] + b[1] * a[2], 2 * a[2] * b[2]>>

\* the indexes idx of vals in ascending order of value, equal values in
\* ascending order of index (a stable sort)
RECURSIVE sortIdx(_, _)
sortIdx(idx, vals) ==
    IF idx = <<>> THEN <<>>
    ELSE LET least == CHOOSE i \in 1..Len(idx) :
                          \A j \in 1..Len(idx) :
                              \/ RatLess(vals[idx[i]], vals[idx[j]])
                              \/ (~RatLess(vals[idx[j]], vals[idx[i]]) /\ i <= j)
         IN <<idx[least]>> \o sortIdx(DeleteAt(idx, least), vals)

\* s sorted by the values vals[i] of its elements s[i]
sortByVals(s, vals) ==
    LET order == sortIdx([i \in 1..Len(s) |-> i], vals)
    IN [i \in 1..Len(s) |-> s[order[i]]]

RECURSIVE SortedEdges(_)
SortedEdges(es) ==
    IF es = {} THEN <<>>
    ELSE LET first == CHOOSE e \in es : \A f \in es :
                          e[1] < f[1] \/ (e[1] = f[1] /\ e[2] <= f[2])
         IN <<first>> \o SortedEdges(es \ {first})

\* the ports of the nodes of a layer on one side, from top to bottom
RECURSIVE portsOfNodes(_, _)
portsOfNodes(ns, ports) ==
    IF ns = <<>> THEN <<>> ELSE ports[Head(ns)] \o portsOfNodes(Tail(ns), ports)

portsOfLayer(G, i, side) ==
    portsOfNodes(G.order[i], IF side = "EAST" THEN G.east ELSE G.west)

\* CrossingsCounter.countCrossingsBetweenLayers: every port has the position
\* it has from top to bottom; two edges cross when their source positions
\* and their target positions are in opposite orders
countCrossingsBetweenLayers(G, leftLayer) ==
    LET L == portsOfLayer(G, leftLayer, "EAST")
        R == portsOfLayer(G, leftLayer + 1, "WEST")
    IN Cardinality({p \in (1..Len(L)) \X (1..Len(L)) :
                        p[1] < p[2] /\ IndexOf(R, L[p[1]]) > IndexOf(R, L[p[2]])})

countCrossingsAt(G, layerIndex) ==
    IF layerIndex < Len(G.order) THEN countCrossingsBetweenLayers(G, layerIndex) ELSE 0

RECURSIVE countCrossingsFrom(_, _)
countCrossingsFrom(G, layerIndex) ==
    IF layerIndex > Len(G.order) THEN 0
    ELSE countCrossingsAt(G, layerIndex) + countCrossingsFrom(G, layerIndex + 1)

countAllCrossings(G) == countCrossingsFrom(G, 1)

firstIndex(isForwardSweep, length) == IF isForwardSweep THEN 1 ELSE length

iterLayerIndexes(layers_cnt, isForwardSweep) ==
    IF isForwardSweep THEN [i \in 1..layers_cnt |-> i]
    ELSE [i \in 1..layers_cnt |-> layers_cnt + 1 - i]

\* NodeRelativePortDistributor.distributePortsWhileSweeping: in a forward
\* sweep the EAST ports of every node of the layer are sorted by the position
\* of the port they are connected to, in a backward sweep the WEST ports
distributePortsWhileSweeping(G, i, forward) ==
    LET other == IF forward THEN i + 1 ELSE i - 1
        opposite == IF other \in 1..Len(G.order)
                    THEN portsOfLayer(G, other, IF forward THEN "WEST" ELSE "EAST")
                    ELSE <<>>
        sorted(ports) == sortByVals(ports, [k \in 1..Len(ports) |-> <<IndexOf(opposite, ports[k]), 1>>])
        inLayer(n) == \E k \in 1..Len(G.order[i]) : G.order[i][k] = n
    IN IF forward
       THEN [G EXCEPT !.east = [n \in DOMAIN G.east |-> IF inLayer(n) THEN sorted(G.east[n]) ELSE G.east[n]]]
       ELSE [G EXCEPT !.west = [n \in DOMAIN G.west |-> IF inLayer(n) THEN sorted(G.west[n]) ELSE G.west[n]]]

\* the barycenter of a node of the free layer: the mean position of the ports
\* of the fixed layer it is connected to, <<>> when it is connected to none
barycenter(G, n, fixed, forward) ==
    LET ports == IF forward THEN G.west[n] ELSE G.east[n]
        fixedPorts == portsOfLayer(G, fixed, IF forward THEN "EAST" ELSE "WEST")
        positions == [k \in 1..Len(ports) |-> IndexOf(fixedPorts, ports[k]) - 1]
        RECURSIVE sum(_)
        sum(k) == IF k = 0 THEN 0 ELSE positions[k] + sum(k - 1)
    IN IF ports = <<>> THEN <<>> ELSE <<sum(Len(ports)), Len(ports)>>

\* unknown barycenters are interpolated between the last value and the next
\* known one
RECURSIVE fillInUnknownBarycenters(_, _, _)
fillInUnknownBarycenters(bary, k, lastValue) ==
    IF k > Len(bary) THEN <<>>
    ELSE LET known == {j \in (k + 1)..Len(bary) : bary[j] # <<>>}
             nextValue == IF known = {} THEN <<lastValue[1] + lastValue[2], lastValue[2]>>
                          ELSE bary[CHOOSE j \in known : \A j2 \in known : j <= j2]
             value == IF bary[k] # <<>> THEN bary[k] ELSE RatMean(lastValue, nextValue)
         IN <<value>> \o fillInUnknownBarycenters(bary, k + 1, value)

\* BarycenterHeuristic.minimizeCrossings: the free layer i is sorted by
\* barycenter relative to the layer before it in the direction of the sweep,
\* nodes of equal barycenter staying in their order; every node with a known
\* barycenter draws its jitter from the random source
minimizeCrossings(G, i, forward) ==
    LET fixed == IF forward THEN i - 1 ELSE i + 1
        free == G.order[i]
        bary == [k \in 1..Len(free) |->
                    IF fixed \in 1..Len(G.order) THEN barycenter(G, free[k], fixed, forward) ELSE <<>>]
        known == Cardinality({k \in 1..Len(free) : bary[k] # <<>>})
    IN [G EXCEPT !.order[i] = sortByVals(free, fillInUnknownBarycenters(bary, 1, <<-1, 1>>)),
                 !.rnd = randomTimes(G.rnd, known)]

\* BarycenterHeuristic.setFirstLayerOrder: every node of the first layer of
\* the sweep draws its barycenter from the random source
setFirstLayerOrder(G, isForwardSweep) ==
    LET i == firstIndex(isForwardSweep, Len(G.order))
        first == G.order[i]
    IN [G EXCEPT !.order[i] = sortByVals(first, [k \in 1..Len(first) |-> <<randomTimes(G.rnd, k), 1>>]),
                 !.rnd = randomTimes(G.rnd, Len(first))]

RECURSIVE sweepLayers(_, _, _)
sweepLayers(G, indexes, forward) ==
    IF indexes = <<>> THEN G
    ELSE sweepLayers(distributePortsWhileSweeping(minimizeCrossings(G, Head(indexes), forward),
                                                  Head(indexes), forward),
                     Tail(indexes), forward)

sweepReducingCrossings(G, forward) ==
    sweepLayers(distributePortsWhileSweeping(G, firstIndex(forward, Len(G.order)), forward),
                iterLayerIndexes(Len(G.order), forward), forward)

\* SweepCopy(currentNodeOrder): a copy of the node order; no port order
setCurrentlyBestNodeOrders(G) == [G EXCEPT !.currentlyBest = G.order]

saveAllNodeOrdersOfChangedGraphs(G) == [G EXCEPT !.best = G.currentlyBest]

\* the local variables of minimizeCrossingsWithCounter with the graph g;
\* returned is -1 until the method returns
Sweeping(G, isForwardSweep, crossingsInGraph) ==
    [g |-> G, isForwardSweep |-> isForwardSweep, crossingsInGraph |-> crossingsInGraph,
     oldNumberOfCrossings |-> 0, returned |-> -1]

\* minimizeCrossingsWithCounter up to the loop: the direction is drawn, the
\* first layer of the sweep is ordered, the graph is swept and counted
firstSweep(G) ==
    LET isForwardSweep == getrandbits1(G.rnd) = 1
        drawn == [G EXCEPT !.rnd = random(G.rnd)]
        swept == sweepReducingCrossings(setFirstLayerOrder(drawn, isForwardSweep), isForwardSweep)
    IN Sweeping(swept, isForwardSweep, countAllCrossings(swept))

\* the iteration below without "isForwardSweep = not isForwardSweep"
nextSweepSameDirection(W) ==
    LET saved == setCurrentlyBestNodeOrders(W.g)
        swept == sweepReducingCrossings(saved, W.isForwardSweep)
        crossingsInGraph == countAllCrossings(swept)
    IN IF W.crossingsInGraph = 0 THEN [W EXCEPT !.g = saved, !.returned = 0]
       ELSE [g |-> swept, isForwardSweep |-> W.isForwardSweep,
             crossingsInGraph |-> crossingsInGraph,
             oldNumberOfCrossings |-> W.crossingsInGraph,
             returned |-> IF ~(W.crossingsInGraph > crossingsInGraph)
                          THEN W.crossingsInGraph ELSE -1]

\* one iteration of the loop "while True" of minimizeCrossingsWithCounter
nextSweep(W) ==
    LET saved == setCurrentlyBestNodeOrders(W.g)
        isForwardSweep == ~W.isForwardSweep
        swept == sweepReducingCrossings(saved, isForwardSweep)
        crossingsInGraph == countAllCrossings(swept)
    IN IF W.crossingsInGraph = 0 THEN [W EXCEPT !.g = saved, !.returned = 0]
       ELSE [g |-> swept, isForwardSweep |-> isForwardSweep,
             crossingsInGraph |-> crossingsInGraph,
             oldNumberOfCrossings |-> W.crossingsInGraph,
             returned |-> IF ~(W.crossingsInGraph > crossingsInGraph)
                          THEN W.crossingsInGraph ELSE -1]

\* the loop of minimizeCrossingsWithCounter; the result is the graph with
\* the returned number in field crossings
RECURSIVE sweepWhileImproving(_, _, _)
sweepWhileImproving(G, isForwardSweep, crossingsInGraph) ==
    LET W == nextSweep(Sweeping(G, isForwardSweep, crossingsInGraph))
    IN IF W.returned # -1 THEN [W.g EXCEPT !.crossings = W.returned]
       ELSE sweepWhileImproving(W.g, W.isForwardSweep, W.crossingsInGraph)

minimizeCrossingsWithCounter(G) ==
    LET W == firstSweep(G)
    IN sweepWhileImproving(W.g, W.isForwardSweep, W.crossingsInGraph)

RECURSIVE compareLayouts(_, _, _)
compareLayouts(G, runs, bestCrossings) ==
    IF runs = 0 THEN G
    ELSE LET after == minimizeCrossingsWithCounter(G)
         IN IF bestCrossings = -1 \/ after.crossings < bestCrossings
            THEN IF after.crossings = 0 THEN saveAllNodeOrdersOfChangedGraphs(after)
                 ELSE compareLayouts(saveAllNodeOrdersOfChangedGraphs(after), runs - 1, after.crossings)
            ELSE compareLayouts(after, runs - 1, bestCrossings)

\* bestCrossings = inf is written -1
compareDifferentRandomizedLayouts(G, randomSeed) ==
    compareLayouts([G EXCEPT !.rnd = randomSeed], G.thoroughness, -1)

\* SweepCopy.transferNodeAndPortOrdersToGraph: the nodes of every layer are
\* put in the order of the copy; the ports are left as the last sweep put them
transferNodeAndPortOrdersToGraph(G) == [G EXCEPT !.order = G.best]

\* a processor that keeps the random source it has instead of taking the one
\* of the graph
initializeKeepsRandom(G, selfRandom) ==
    [random |-> random(selfRandom), randomSeed |-> random(selfRandom)]

\* LayerSweepCrossingMinimizer.initialize: the random source of the
\* processor becomes the one of the graph, and the seed of the runs is drawn
\* from it
initialize(G, selfRandom) == [random |-> random(G.rnd), randomSeed |-> random(G.rnd)]

\* LayerSweepCrossingMinimizer.process (the graphs of the model have nodes)
process(G, selfRandom) ==
    LET init == initialize(G, selfRandom)
    IN transferNodeAndPortOrdersToGraph(
           compareDifferentRandomizedLayouts([G EXCEPT !.rnd = init.random], init.randomSeed))

(***************************************************************************)
(* Specification SpecSweep: a layered graph with at most CmEdges edges is  *)
(* given to a LayerSweepCrossingMinimizer, and then an equal graph is      *)
(* given to the same processor.  The random source of a new LGraph is      *)
(* Random(), seeded from the entropy of the system: any state.  Before a   *)
(* run the caller may seed it.                                             *)
(***************************************************************************)
newSweepGraph(es, thoroughness, entropy) ==
    [order |-> [i \in 1..CmLayers |-> [k \in 1..CmWidth |-> (i - 1) * CmWidth + k]],
     east |-> [n \in CmNodeIds |-> SortedEdges({e \in es : e[1] = n})],
     west |-> [n \in CmNodeIds |-> SortedEdges({e \in es : e[2] = n})],
     rnd |-> entropy, thoroughness |-> thoroughness,
     currentlyBest |-> <<>>, best |-> <<>>, crossings |-> 0]

InitSweep ==
    /\ NoGraph
    /\ cfg = NoCfg
    /\ place = NoPlace
    /\ pc = "cmNew"
    /\ \E es \in SUBSET CmPairs, thoroughness \in 1..CmThoroughness, entropy \in Rnd :
           /\ Cardinality(es) <= CmEdges
           /\ cm = [g |-> newSweepGraph(es, thoroughness, entropy),
                    input |-> newSweepGraph(es, thoroughness, 0),
                    selfRandom |-> 0, run |-> 1, seeds |-> <<-1>>, out |-> <<>>]

\* graph.random.seed(a)
CmSeed(a) ==
    /\ pc = "cmNew"
    /\ cm.seeds[cm.run] = -1
    /\ cm' = [cm EXCEPT !.g.rnd = a, !.seeds[cm.run] = a]
    /\ pc' = pc
    /\ UNCHANGED <<gGraph, gNode, gIn, gDeg, gEdge, gProc, hist, orig, cfg, place>>

\* LayerSweepCrossingMinimizer.process(graph)
CmProcess ==
    /\ pc = "cmNew"
    /\ \E done \in {process(cm.g, cm.selfRandom)} :
           cm' = [cm EXCEPT !.g = done, !.selfRandom = done.rnd,
                            !.out = Append(@, [order |-> done.order, east |-> done.east,
                                               west |-> done.west])]
    /\ pc' = "cmDone"
    /\ UNCHANGED <<gGraph, gNode, gIn, gDeg, gEdge, gProc, hist, orig, cfg, place>>

\* an equal graph is built: LGraph() has a random source of its own
CmAgain ==
    /\ pc = "cmDone"
    /\ cm.run = 1
    /\ \E entropy \in Rnd :
           cm' = [cm EXCEPT !.g = [cm.input EXCEPT !.rnd = entropy], !.run = 2,
                            !.seeds = Append(@, -1)]
    /\ pc' = "cmNew"
    /\ UNCHANGED <<gGraph, gNode, gIn, gDeg, gEdge, gProc, hist, orig, cfg, place>>

NextSweep ==
    \/ \E a \in 0..(CmSeeds - 1) : CmSeed(a)
    \/ CmProcess
    \/ CmAgain

SpecSweep == InitSweep /\ [][NextSweep]_vars

\* C13: after crossing minimization the number of crossings counted for the
\* node order written back to the graph is at most the number counted for
\* the node order the graph had on input.
C13_CrossingsNotAboveInput ==
    pc = "cmDone" => countAllCrossings(cm.g) <= countAllCrossings(cm.input)

PlNodeIds == 1..PlNodes

RECURSIVE Ascending(_)
Ascending(S) ==
    IF S = {} THEN <<>>
    ELSE LET least == CHOOSE n \in S : \A m \in S : n <= m
         IN <<least>> \o Ascending(S \ {least})

InLayerConstraint == {"NONE", "TOP", "BOTTOM"}
FixedAlignment == {"NONE", "BALANCED", "LEFTDOWN", "LEFTUP", "RIGHTDOWN", "RIGHTUP"}

newPlaceGraph(layerOf, constraint, size, es, align, favorStraightEdges) ==
    LET ls == [i \in 1..layerOf[PlNodes] |-> Ascending({n \in PlNodeIds : layerOf[n] = i})]
    IN [layers |-> ls, inLayerConstraint |-> constraint,
        y |-> [n \in PlNodeIds |-> 0], x |-> [n \in PlNodeIds |-> 0],
        size |-> [n \in PlNodeIds |-> size],
        edges |-> es, bendPoints |-> [e \in es |-> <<>>],
        align |-> align, favorStraightEdges |-> favorStraightEdges,
        before |-> ls, raised |-> ""]

\* the layer (from 1) and the index in its layer (from 0) of a node
plLayerOf(P, n) == CHOOSE i \in 1..Len(P.layers) : \E k \in 1..Len(P.layers[i]) : P.layers[i][k] = n
plIndexOf(P, n) == IndexOf(P.layers[plLayerOf(P, n)], n) - 1

\* the layerings without an empty layer
PlLayerings ==
    {f \in [PlNodeIds -> 1..PlLayers] :
        /\ f[1] = 1
        /\ \A n \in PlNodeIds \ {1} : f[n] \in {f[n - 1], f[n - 1] + 1}}
PlEdgeSets(layerOf) ==
    {es \in SUBSET {e \in PlNodeIds \X PlNodeIds : layerOf[e[2]] = layerOf[e[1]] + 1} :
        Cardinality(es) <= PlEdges}

(***************************************************************************)
(* BKNodePlacer.                                                           *)
(***************************************************************************)
MIN_LAYERS_FOR_CONFLICTS == 3

\* NeighborhoodInformation.buildFor; every edge has priorityStraightness 1
buildFor(P) ==
    [nodeCount |-> Cardinality({n \in PlNodeIds : \E i \in 1..Len(P.layers) :
                                   \E k \in 1..Len(P.layers[i]) : P.layers[i][k] = n}),
     nodeIndex |-> [n \in PlNodeIds |-> plIndexOf(P, n)],
     leftNeighbors |-> [n \in PlNodeIds |-> Ascending({e[1] : e \in {f \in P.edges : f[2] = n}})],
     rightNeighbors |-> [n \in PlNodeIds |-> Ascending({e[2] : e \in {f \in P.edges : f[1] = n}})]]

\* BKNodePlacer.markConflicts: the edges it marks.  No node is a LONG_EDGE
\* or BIG_NODE, so incidentToInnerSegment is false, k_0 is 0 and k_1 is the
\* last index of the layer before
markConflicts(P, ni) ==
    IF Len(P.layers) < MIN_LAYERS_FOR_CONFLICTS THEN {}
    ELSE {e \in P.edges :
             /\ plLayerOf(P, e[2]) \in 3..Len(P.layers)
             /\ \/ ni.nodeIndex[e[1]] < 0
                \/ ni.nodeIndex[e[1]] > Len(P.layers[plLayerOf(P, e[2]) - 1]) - 1}

\* the layouts BKNodePlacer.process creates for an alignment
layoutsFor(align) ==
    IF align = "LEFTDOWN" THEN <<"leftdown">>
    ELSE IF align = "LEFTUP" THEN <<"leftup">>
    ELSE IF align = "RIGHTDOWN" THEN <<"rightdown">>
    ELSE IF align = "RIGHTUP" THEN <<"rightup">>
    ELSE <<"rightdown", "rightup", "leftdown", "leftup">>

\* BKNodePlacer.process: markedEdges is a set and layouts is a list; the
\* first markedEdges.append and the first layouts.add raise AttributeError,
\* before any layout is computed and before a position is given to a node
bkProcess(P) ==
    LET ni == buildFor(P)
        markedEdges == markConflicts(P, ni)
        created == layoutsFor(P.align)
    IN IF markedEdges # {} \/ Len(created) > 0
       THEN [P EXCEPT !.raised = "AttributeError"]
       ELSE P

(***************************************************************************)
(* Specification SpecPlacer: a layered graph whose nodes have one size, in *)
(* the order of the layers it has after the earlier phases, is given to   *)
(* BKNodePlacer with any alignment.                                        *)
(***************************************************************************)
InitPlacer ==
    /\ NoGraph
    /\ cfg = NoCfg
    /\ cm = NoCm
    /\ pc = "bkNew"
    /\ \E layerOf \in PlLayerings, size \in 0..PlMaxSize, align \in FixedAlignment,
          favorStraightEdges \in BOOLEAN :
         \E es \in PlEdgeSets(layerOf) :
           place = newPlaceGraph(layerOf, [n \in PlNodeIds |-> "NONE"], [x |-> size, y |-> size],
                                 es, align, favorStraightEdges)

BkProcess ==
    /\ pc = "bkNew"
    /\ place' = bkProcess(place)
    /\ pc' = "bkDone"
    /\ UNCHANGED <<gGraph, gNode, gIn, gDeg, gEdge, gProc, hist, orig, cfg, cm>>

NextPlacer == BkProcess

SpecPlacer == InitPlacer /\ [][NextPlacer]_vars

\* the interval a node takes in its layer: margins are 0 and the position of
\* the node is the y of the layout plus the inner shift
plTop(P, n) == P.y[n]
plBottom(P, n) == P.y[n] + P.size[n].y

\* C15: after the node placer has processed a graph, the intervals
\* [y - marginTop, y + innerShift + size + marginBottom] of two distinct
\* nodes of one layer are disjoint.
C15_NodesOfALayerDoNotOverlap ==
    pc = "bkDone" =>
        \A a, b \in PlNodeIds :
            (a # b /\ plLayerOf(place, a) = plLayerOf(place, b))
                => (plBottom(place, a) < plTop(place, b) \/ plBottom(place, b) < plTop(place, a))

(***************************************************************************)
(* OrthogonalEdgeRouter and OrthogonalRoutingGenerator.                    *)
(***************************************************************************)
\* the anchor of the ports of an edge; the position of a port is absolute
\* (LNode.initDim and LNode.translate move the ports with the node): the
\* EAST port of the source ends at the right border of its node, the WEST
\* port of the target starts at the left border
sourcePoint(P, e) == [x |-> P.x[e[1]] + P.size[e[1]].x, y |-> P.y[e[1]]]
targetPoint(P, e) == [x |-> P.x[e[2]], y |-> P.y[e[2]]]

\* the path of an edge, from its source port through its bend points to its
\* target port
edgePath(P, e) == <<sourcePoint(P, e)>> \o P.bendPoints[e] \o <<targetPoint(P, e)>>

isOrthogonal(path) ==
    \A k \in 1..(Len(path) - 1) : path[k].x = path[k + 1].x \/ path[k].y = path[k + 1].y

\* OrthogonalRoutingGenerator.createHyperNodes: layerNodes is a layer or "None";
\* LNode has no method getPorts
createHyperNodes(layerNodes) ==
    IF layerNodes # "None" /\ Len(layerNodes) > 0 THEN "AttributeError" ELSE ""

\* OrthogonalRoutingGenerator.routeEdges: with a node in one of the layers
\* createHyperNodes raises; without, hyperNodes.listIterator() raises, as a
\* list has no method listIterator.  calculateBendPoints is not reached
routeEdges(P, sourceLayerNodes, targetLayerNodes) ==
    IF createHyperNodes(sourceLayerNodes) # ""
    THEN [P EXCEPT !.raised = createHyperNodes(sourceLayerNodes)]
    ELSE IF createHyperNodes(targetLayerNodes) # ""
    THEN [P EXCEPT !.raised = createHyperNodes(targetLayerNodes)]
    ELSE [P EXCEPT !.raised = "AttributeError"]

\* OrthogonalEdgeRouter.process: the module edgeRouter.py repeats a keyword
\* argument in a call (line 135) and is rejected when it is imported
edgeRouterProcess(P) == [P EXCEPT !.raised = "SyntaxError"]

(***************************************************************************)
(* Specification SpecRouter: a layered graph whose nodes have a size and a *)
(* y, as after node placement, is given to the edge router, or two         *)
(* neighbouring layers of it to the routing generator.                     *)
(***************************************************************************)
InitRouter ==
    /\ NoGraph
    /\ cfg = NoCfg
    /\ cm = NoCm
    /\ pc = "rtNew"
    /\ \E layerOf \in PlLayerings, size \in 0..PlMaxSize, y \in [PlNodeIds -> 0..PlMaxSize] :
         \E es \in PlEdgeSets(layerOf) :
           place = [newPlaceGraph(layerOf, [n \in PlNodeIds |-> "NONE"], [x |-> size, y |-> size],
                                  es, "NONE", TRUE) EXCEPT !.y = y]

RtProcess ==
    /\ pc = "rtNew"
    /\ place' = edgeRouterProcess(place)
    /\ pc' = "rtDone"
    /\ UNCHANGED <<gGraph, gNode, gIn, gDeg, gEdge, gProc, hist, orig, cfg, cm>>

RtRouteEdges(leftLayerIndex) ==
    /\ pc = "rtNew"
    /\ place' = routeEdges(place,
                           IF leftLayerIndex = 0 THEN "None" ELSE place.layers[leftLayerIndex],
                           IF leftLayerIndex = Len(place.layers) THEN "None"
                           ELSE place.layers[leftLayerIndex + 1])
    /\ pc' = "rtDone"
    /\ UNCHANGED <<gGraph, gNode, gIn, gDeg, gEdge, gProc, hist, orig, cfg, cm>>

NextRouter ==
    \/ RtProcess
    \/ \E leftLayerIndex \in 0..Len(place.layers) : RtRouteEdges(leftLayerIndex)

SpecRouter == InitRouter /\ [][NextRouter]_vars

\* C16: after the orthogonal edge router, the path of every edge from its
\* source port through its bend points to its target port has horizontal
\* and vertical segments only.
C16_EdgePathsAreOrthogonal ==
    pc = "rtDone" => \A e \in place.edges : isOrthogonal(edgePath(place, e))

(***************************************************************************)
(* InLayerConstraintProcessor.                                             *)
(***************************************************************************)
layer_sort_keyTopLast(c) ==
    IF c = "NONE" THEN 1 ELSE IF c = "TOP" THEN 2 ELSE 0

layer_sort_key(c) ==
    IF c = "NONE" THEN 1 ELSE IF c = "TOP" THEN 0 ELSE 2

\* InLayerConstraintProcessor.process: list.sort is stable
inLayerProcess(P) ==
    [P EXCEPT !.layers =
        [i \in 1..Len(P.layers) |->
            sortByVals(P.layers[i],
                       [k \in 1..Len(P.layers[i]) |->
                           <<layer_sort_key(P.inLayerConstraint[P.layers[i][k]]), 1>>])]]

(***************************************************************************)
(* Specification SpecInLayer: a layered graph whose nodes have any         *)
(* in-layer constraints is given to the processor.                         *)
(***************************************************************************)
InitInLayer ==
    /\ NoGraph
    /\ cfg = NoCfg
    /\ cm = NoCm
    /\ pc = "ilNew"
    /\ \E layerOf \in PlLayerings, constraint \in [PlNodeIds -> InLayerConstraint] :
           place = newPlaceGraph(layerOf, constraint, [x |-> 0, y |-> 0], {}, "NONE", TRUE)

IlProcess ==
    /\ pc = "ilNew"
    /\ place' = inLayerProcess(place)
    /\ pc' = "ilDone"
    /\ UNCHANGED <<gGraph, gNode, gIn, gDeg, gEdge, gProc, hist, orig, cfg, cm>>

NextInLayer == IlProcess

SpecInLayer == InitInLayer /\ [][NextInLayer]_vars

\* C17: after the in-layer constraint processor, in every layer no node
\* without constraint TOP is before a node with TOP, no node with
\* constraint BOTTOM is before a node without BOTTOM, and two nodes with
\* the same constraint are in the order they had before.
C17_LayersRespectInLayerConstraints ==
    pc = "ilDone" =>
        \A i \in 1..Len(place.layers) :
            /\ Len(place.layers[i]) = Len(place.before[i])
            /\ \A a, b \in 1..Len(place.layers[i]) :
                 a < b =>
                   LET u == place.layers[i][a]
                       v == place.layers[i][b]
                       cu == place.inLayerConstraint[u]
                       cv == place.inLayerConstraint[v]
                   IN /\ ~(cv = "TOP" /\ cu # "TOP")
                      /\ ~(cu = "BOTTOM" /\ cv # "BOTTOM")
                      /\ cu = cv => IndexOf(place.before[i], u) < IndexOf(place.before[i], v)

C17_Witness ==
    /\ pc = "ilDone"
    /\ \E i \in 1..Len(place.layers) :
         /\ place.layers[i] # place.before[i]
         /\ \E a, b \in 1..Len(place.layers[i]) :
              /\ a < b
              /\ place.inLayerConstraint[place.layers[i][a]] = place.inLayerConstraint[place.layers[i][b]]
              /\ IndexOf(place.before[i], place.layers[i][a]) < IndexOf(place.before[i], place.layers[i][b])

\* the graph process was given, as pairs (source node, target node) of the
\* edges of a set
origPairs(es) == {<<getNode(orig.src[e]), getNode(orig.dst[e])>> : e \in es}

origAcyclic(es) == TopologicalSortTerminates(Range(nodes), origPairs(es))

\* e0 and e1 are the two edges of a direct cycle of two nodes, and the graph
\* process was given has no other directed cycle: every cycle goes through
\* e0 and through e1
onlyCycleIs(e0, e1) ==
    /\ e0 # e1
    /\ getNode(orig.src[e0]) # getNode(orig.dst[e0])
    /\ getNode(orig.src[e1]) = getNode(orig.dst[e0])
    /\ getNode(orig.dst[e1]) = getNode(orig.src[e0])
    /\ \A e \in Range(edges) : getNode(orig.src[e]) # getNode(orig.dst[e])
    /\ origAcyclic(Range(edges) \ {e0})
    /\ origAcyclic(Range(edges) \ {e1})

\* C18: when the only directed cycle of the graph is a direct cycle of two
\* nodes, the cycle breaker reverses exactly one of the two edges of the
\* cycle and no other edge.
C18_OneEdgeOfDirectCycleReversed ==
    cbEnded =>
        \A e0, e1 \in Range(edges) :
            onlyCycleIs(e0, e1) =>
                /\ reversed[e0] # reversed[e1]
                /\ \A e \in Range(edges) \ {e0, e1} : ~reversed[e]

RECURSIVE chainReaches(_, _, _, _)
chainReaches(e, l, j, target) ==
    IF l + 1 >= j THEN dst[e] = target
    ELSE LET d == dstNode[e]
         IN /\ d \in Range(nodes)
            /\ type[d] = "LONG_EDGE"
            /\ layer[d] = l + 1
            /\ Count(layers[l + 1], d) = 1
            /\ Len(west[d]) = 1
            /\ Len(east[d]) = 1
            /\ dst[e] = west[d][1]
            /\ incomingEdges[west[d][1]] = <<e>>
            /\ outgoingEdges[west[d][1]] = <<>>
            /\ incomingEdges[east[d][1]] = <<>>
            /\ Len(outgoingEdges[east[d][1]]) = 1
            /\ outgoingEdges[east[d][1]][1] \in Range(edges)
            /\ srcNode[outgoingEdges[east[d][1]][1]] = d
            /\ chainReaches(outgoingEdges[east[d][1]][1], l + 1, j, target)

\* the layer a node of the graph given to the splitter was in
origLayerOf(n) == CHOOSE l \in 1..Len(orig.layers) : n \in Range(orig.layers[l])

pointedLeft(e) == mark[getNode(orig.src[e])] > mark[getNode(orig.dst[e])]

\* C22: when the cycle breaker has finished, every edge whose source rank
\* exceeded its target rank has been reversed once (its flag is set and its
\* two ends are exchanged), also when several such edges leave one port,
\* and no edge leads from a node to a node of lower rank.
C22_LeftPointingEdgesReversed ==
    cbEnded =>
        \A e \in Range(edges) :
            /\ pointedLeft(e) =>
                   /\ reversed[e]
                   /\ srcNode[e] = getNode(orig.dst[e])
                   /\ dstNode[e] = getNode(orig.src[e])
            /\ mark[srcNode[e]] <= mark[dstNode[e]]

\* the ranking loop of process is running
cbRanking == pc \in {"cbSinks", "cbSources"}

\* the nodes without a rank
cbUnranked == {n \in Range(nodes) : mark[n] = 0}

\* while the ranking loop runs, no node is twice in sinks or in sources,
\* sinks, sources and unresolved are pairwise disjoint, and the nodes in
\* them are the nodes without a rank
cbQueuesPartitionUnranked ==
    /\ \A n \in Range(nodes) : Count(cb.sinks, n) <= 1 /\ Count(cb.sources, n) <= 1
    /\ Range(cb.sinks) \cap Range(cb.sources) = {}
    /\ Range(cb.sinks) \cap cb.unresolved = {}
    /\ Range(cb.sources) \cap cb.unresolved = {}
    /\ Range(cb.sinks) \cup Range(cb.sources) \cup cb.unresolved = cbUnranked

\* after the shift all ranks are positive and pairwise distinct
cbRanksPositiveAndDistinct ==
    \A n, m \in Range(nodes) : mark[n] > 0 /\ (n # m => mark[n] # mark[m])

\* C23: the ranking loop of the cycle breaker terminates: every iteration
\* of its three inner steps leaves fewer nodes without a rank.  While
\* it runs, sinks, sources and unresolved are pairwise disjoint and hold
\* exactly the nodes without a rank, a node that has a rank keeps it, and
\* after the shift by |nodes| + 1 all ranks are positive and pairwise
\* distinct.
C23_RankingTerminatesWithDistinctRanks ==
    /\ [](cbRanking => cbQueuesPartitionUnranked)
    /\ [][(cbRanking /\ cbRanking') =>
             /\ \A n \in Range(nodes) : mark[n] # 0 => mark'[n] = mark[n]
             /\ Cardinality(cbUnranked') < Cardinality(cbUnranked)]_vars
    /\ [](pc \in {"cbReverse", "cbDone", "cbRaised"} => cbRanksPositiveAndDistinct)

C23_Witness ==
    /\ pc = "cbReverse"
    /\ Len(nodes) = CbNodes
    /\ cbRanksPositiveAndDistinct
    /\ \E n \in Range(nodes) : mark[n] = Len(nodes)
    /\ \E e1, e2 \in Range(edges) :
          srcNode[e1] = dstNode[e2] /\ srcNode[e2] = dstNode[e1] /\ srcNode[e1] # dstNode[e1]

\* C24: whenever the MinWidth layerer selects a node for the current layer,
\* the selected node has maximal out-degree among the eligible unplaced nodes
\* (those whose successors all lie in finished layers).
C24_SelectedNodeHasMaximalOutdeg ==
    [][pc = "lyLoop" =>
          \A currentNode \in ly.unplacedNodes \ ly'.unplacedNodes :
              \A n \in selectNode(ly.unplacedNodes, ly.alreadyPlacedInOtherLayers) :
                  outdeg[n] <= outdeg[currentNode]]_vars

(***************************************************************************)
(* Specification SpecRestorer: ReversedEdgeRestorer.process on a routed    *)
(* graph.  Of at most RrEdges edges between at most RrNodes nodes some     *)
(* were reversed before the layout (ReverseAll); the nodes lie at the      *)
(* heights place.y, a port at the height of its node; every edge whose     *)
(* ends differ in height carries the two bend points                       *)
(* WestToEastRoutingStrategy.calculateBendPoints appends to it, the one at *)
(* the height of its source port first.  A bend point is <<x, y>>.  The    *)
(* steps are the iterations of the loop over the edges.                    *)
(***************************************************************************)
\* "for edge in port.outgoingEdges" of calculateBendPoints for the edge e,
\* with the vertical segment at x
calculateBendPoints(E, y, e, x) ==
    LET sourcey == y[getNode(E.src[e])]
        targety == y[getNode(E.dst[e])]
    IN IF sourcey # targety THEN <<<<x, sourcey>>, <<x, targety>>>> ELSE <<>>

InitRestorer ==
    /\ \E n \in 1..RrNodes :
         /\ InitNodes([i \in 1..n |-> i])
         /\ \E y \in [1..n -> 0..RrMaxY] : place = [NoPlace EXCEPT !.y = y]
         /\ \E k \in 0..RrEdges :
              /\ edges = [i \in 1..k |-> i]
              /\ \E f \in [1..k -> (1..n) \X (1..n)] :
                   \E R \in SUBSET {i \in 1..k : f[i][1] # f[i][2]} :
                       \E E0 \in {BuildEdges(NoEdges, f, 1)} :
                           \E E \in {ReverseAll(E0, R, 1, k)} :
                               /\ InitEdgeState(
                                      [E EXCEPT !.bendPoints =
                                          [e \in EdgeIds |->
                                              IF e <= k
                                              THEN calculateBendPoints(E, place.y, e, 0)
                                              ELSE <<>>]])
                               /\ orig = [NoOrig EXCEPT !.edges = edges, !.src = E0.src,
                                                        !.dst = E0.dst,
                                                        !.reversed = E.reversed]
    /\ layers = <<>>
    /\ height = [i \in NodeIds |-> 0]
    /\ direction = [p \in PortIds |-> IF p = EastPort(getNode(p)) THEN "OUTPUT" ELSE "INPUT"]
    /\ cb = NoCb
    /\ ly = NoLy
    /\ cur = NoCur
    /\ pc = "rrLoop"
    /\ cfg = NoCfg
    /\ cm = NoCm
    /\ hist = NoHist

\* one iteration of "for edge in layeredGraph.edges" of
\* ReversedEdgeRestorer.process
RrRestoreEdge ==
    /\ pc = "rrLoop"
    /\ cur.i < Len(edges)
    /\ SetEdgeState(restoreEdge(EdgeState, edges[cur.i + 1]))
    /\ cur' = [cur EXCEPT !.i = @ + 1]
    /\ UNCHANGED <<gGraph, gNode, gIn, gDeg, cb, ly, pc, hist, orig, gLater>>

\* the end of the loop: process returns
RrReturn ==
    /\ pc = "rrLoop"
    /\ cur.i >= Len(edges)
    /\ pc' = "rrDone"
    /\ UNCHANGED <<gGraph, gNode, gIn, gDeg, gEdge, cb, ly, cur, hist, orig, gLater>>

NextRestorer ==
    \/ RrRestoreEdge
    \/ RrReturn

SpecRestorer == InitRestorer /\ [][NextRestorer]_vars

\* a Python list in the opposite order
RECURSIVE Reversed(_)
Reversed(s) == IF s = <<>> THEN <<>> ELSE Append(Reversed(Tail(s)), Head(s))

\* the bend points of e begin at the height of the port p and end at the
\* height of the port q
bendsLead(e, p, q) ==
    bendPoints[e] # <<>> =>
        /\ bendPoints[e][1][2] = place.y[getNode(p)]
        /\ bendPoints[e][Len(bendPoints[e])][2] = place.y[getNode(q)]

\* C25: a step that reverses an edge reverses the list of its bend points,
\* and when the reversed-edge restorer has returned the bend points of every
\* edge lead from the source the edge was added with to the target it was
\* added with.
C25_BendPointsFollowUserDirection ==
    /\ [][\A e \in Range(edges) :
             reversed'[e] # reversed[e] => bendPoints'[e] = Reversed(bendPoints[e])]_vars
    /\ [](pc = "rrDone" =>
             \A e \in Range(edges) : bendsLead(e, orig.src[e], orig.dst[e]))

(***************************************************************************)
(* Specification SpecCounter: minimizeCrossingsWithCounter on a layered    *)
(* graph with at most CmEdges edges and a random source in any state.  cm  *)
(* holds the graph and the local variables of the method; the steps are    *)
(* the sweeps.                                                             *)
(***************************************************************************)
InitCounter ==
    /\ NoGraph
    /\ cfg = NoCfg
    /\ place = NoPlace
    /\ pc = "cwStart"
    /\ \E es \in SUBSET CmPairs, entropy \in Rnd :
           /\ Cardinality(es) <= CmEdges
           /\ cm = Sweeping(newSweepGraph(es, 1, entropy), FALSE, 0)

\* minimizeCrossingsWithCounter up to the loop
CwFirstSweep ==
    /\ pc = "cwStart"
    /\ cm' = firstSweep(cm.g)
    /\ pc' = "cwLoop"
    /\ UNCHANGED <<gGraph, gNode, gIn, gDeg, gEdge, gProc, hist, orig, cfg, place>>

\* one iteration of the loop, with the return from inside it or after it
CwNextSweep ==
    /\ pc = "cwLoop"
    /\ cm' = nextSweep(cm)
    /\ pc' = IF cm'.returned # -1 THEN "cwDone" ELSE "cwLoop"
    /\ UNCHANGED <<gGraph, gNode, gIn, gDeg, gEdge, gProc, hist, orig, cfg, place>>

NextCounter ==
    \/ CwFirstSweep
    \/ CwNextSweep

SpecCounter == InitCounter /\ [][NextCounter]_vars

\* C26: minimizeCrossingsWithCounter terminates: the number of crossings is
\* a natural number, counted after each sweep, and every iteration that does
\* not end the loop lowers it; an iteration sweeps in the direction opposite
\* to the one before, and the loop ends exactly at the first sweep that does
\* not lower the count or when the count is 0; the number returned is the
\* number of crossings of the graph whose node order was saved as currently
\* best.
C26_SweepsUntilNoImprovement ==
    /\ [](pc = "cwLoop" => /\ cm.crossingsInGraph >= 0
                           /\ cm.crossingsInGraph = countAllCrossings(cm.g))
    /\ [][pc = "cwLoop" =>
            /\ pc' = "cwLoop" => cm'.crossingsInGraph < cm.crossingsInGraph
            /\ pc' = "cwDone" <=> \/ cm.crossingsInGraph = 0
                                  \/ countAllCrossings(cm'.g) >= cm.crossingsInGraph
            /\ cm.crossingsInGraph # 0 => cm'.isForwardSweep = ~cm.isForwardSweep
            /\ pc' = "cwDone" => /\ cm'.g.currentlyBest = cm.g.order
                                 /\ cm'.returned = countAllCrossings(cm.g)]_vars

\* the method has returned a positive number: the last sweep did not lower
\* the count
C26_Witness ==
    /\ pc = "cwDone"
    /\ cm.returned > 0
    /\ cm.crossingsInGraph >= cm.returned

\* the layers a sweep over n layers is to reorder, numbered from 1: the
\* layers after the first one of the direction, in the order of the sweep
remainingLayers(n, forward) ==
    IF forward THEN [i \in 1..(n - 1) |-> i + 1] ELSE [i \in 1..(n - 1) |-> n - i]

\* C27: a sweep leaves the first layer of its direction in the order it has
\* and calls the heuristic for the remaining layers only: the indexes it
\* iterates over are 1..n-1 on a forward sweep and n-2..0 on a backward
\* sweep (here, numbered from 1, the layers 2..n and n-1..1).
C27_SweepReordersRemainingLayersOnly ==
    /\ [](pc = "cwLoop" =>
             iterLayerIndexes(Len(cm.g.order), ~cm.isForwardSweep)
                 = remainingLayers(Len(cm.g.order), ~cm.isForwardSweep))
    /\ [][(pc = "cwLoop" /\ cm.crossingsInGraph # 0) =>
             LET first == firstIndex(cm'.isForwardSweep, Len(cm.g.order))
             IN cm'.g.order[first] = cm.g.order[first]]_vars

(***************************************************************************)
(* Specification SpecProcess: LayerSweepCrossingMinimizer.process on a     *)
(* graph of at most PrLayers layers of at most PrWidth nodes each, where   *)
(* layers may be empty and the first node, if there is one, may hold a     *)
(* nested graph of the same kind.  The graphs have no edges and no         *)
(* external port dummies.  The steps are the short-circuit test with       *)
(* initialize, the iterations of the loop of minimizeCrossings and the     *)
(* transfer of the orders.                                                 *)
(***************************************************************************)
\* the node lists of layers of the given sizes, the nodes numbered from 1
RECURSIVE layersOfSizes(_, _)
layersOfSizes(sizes, firstNode) ==
    IF sizes = <<>> THEN <<>>
    ELSE <<[k \in 1..Head(sizes) |-> firstNode + k - 1]>>
         \o layersOfSizes(Tail(sizes), firstNode + Head(sizes))

PrShapes == UNION {[1..n -> 0..PrWidth] : n \in 0..PrLayers}

\* an LGraph with the layers of the given sizes and a GraphInfoHolder for it:
\* parent is the node that holds the graph, 0 for None
newHolder(sizes, thoroughness, parent, hasExternalPorts) ==
    [g |-> [order |-> layersOfSizes(sizes, 1),
            east |-> [n \in 1..(PrLayers * PrWidth) |-> <<>>],
            west |-> [n \in 1..(PrLayers * PrWidth) |-> <<>>],
            rnd |-> 0, thoroughness |-> thoroughness,
            currentlyBest |-> <<>>, best |-> <<>>, crossings |-> 0],
     parent |-> parent, hasExternalPorts |-> hasExternalPorts]

\* the tests at the head of process
emptyGraph(ls) == ls = <<>> \/ \A i \in 1..Len(ls) : Len(ls[i]) = 0
singleNode(ls) == Len(ls) = 1 /\ Len(ls[1]) = 1

\* sortPortsByDummyPositionsInLastLayer: the error it raises, "" when it
\* returns; no node is an external port dummy, so it returns after the test
\* of lastLayer[0]
sortPortsByDummyPositionsInLastLayer(nodeOrder, onRightMostLayer) ==
    LET lastLayer == nodeOrder[IF onRightMostLayer THEN Len(nodeOrder) ELSE 1]
    IN IF Len(lastLayer) = 0 THEN "IndexError" ELSE ""

\* setPortOrderOnParentGraph: the error it raises, "" when it returns
setPortOrderOnParentGraph(gData) ==
    IF gData.hasExternalPorts
    THEN IF sortPortsByDummyPositionsInLastLayer(gData.g.best, TRUE) # ""
         THEN sortPortsByDummyPositionsInLastLayer(gData.g.best, TRUE)
         ELSE sortPortsByDummyPositionsInLastLayer(gData.g.best, FALSE)
    ELSE ""

InitProcess ==
    /\ NoGraph
    /\ cfg = NoCfg
    /\ place = NoPlace
    /\ pc = "prStart"
    /\ \E sizes \in PrShapes, entropy \in Rnd, includeChildren \in BOOLEAN :
         \E hasNested \in BOOLEAN, nestedSizes \in PrShapes, hasExternalPorts \in BOOLEAN :
           /\ hasNested => ~emptyGraph(layersOfSizes(sizes, 1))
           /\ ~hasNested => nestedSizes = <<>> /\ ~hasExternalPorts
           /\ cm = [root |-> [newHolder(sizes, 1, 0, FALSE) EXCEPT !.g.rnd = entropy],
                    nested |-> IF hasNested
                               THEN <<newHolder(nestedSizes, 1, 1, hasExternalPorts)>>
                               ELSE <<>>,
                    hierarchyHandling |-> IF includeChildren THEN "INCLUDE_CHILDREN"
                                          ELSE "SEPARATE_CHILDREN",
                    graphsToSweepOn |-> <<>>, randomSeed |-> 0]

\* process up to the call of minimizeCrossings: the return for graphs in
\* which nothing can be minimized, and initialize
PrStart ==
    /\ pc = "prStart"
    /\ LET ls == cm.root.g.order
           hierarchicalLayout == cm.hierarchyHandling = "INCLUDE_CHILDREN"
           init == initialize(cm.root.g, 0)
       IN IF emptyGraph(ls) \/ (singleNode(ls) /\ ~hierarchicalLayout)
          THEN pc' = "prDone" /\ cm' = cm
          ELSE /\ pc' = "prMinimize"
               /\ cm' = [cm EXCEPT !.graphsToSweepOn =
                                       <<[cm.root EXCEPT !.g.rnd = init.random]>> \o cm.nested,
                                   !.randomSeed = init.randomSeed]
    /\ cur' = NoCur
    /\ UNCHANGED <<gGraph, gNode, gIn, gDeg, gEdge, cb, ly, hist, orig, cfg, place>>

\* one iteration of "for gData in graphsToSweepOn" of minimizeCrossings
PrMinimize ==
    /\ pc = "prMinimize"
    /\ cur.i < Len(cm.graphsToSweepOn)
    /\ \E gData \in {cm.graphsToSweepOn[cur.i + 1]} :
         IF Len(gData.g.order) = 0
         THEN cm' = cm /\ pc' = pc
         ELSE \E minimized \in {compareDifferentRandomizedLayouts(gData.g, cm.randomSeed)} :
                \E raised \in {IF gData.parent # 0
                                THEN setPortOrderOnParentGraph(
                                         [g |-> minimized, parent |-> gData.parent,
                                          hasExternalPorts |-> gData.hasExternalPorts])
                                ELSE ""} :
                    /\ cm' = [cm EXCEPT !.graphsToSweepOn[cur.i + 1].g = minimized]
                    /\ pc' = IF raised # "" THEN raised ELSE pc
    /\ cur' = [cur EXCEPT !.i = @ + 1]
    /\ UNCHANGED <<gGraph, gNode, gIn, gDeg, gEdge, cb, ly, hist, orig, cfg, place>>

\* transferNodeAndPortOrdersToGraph for every graph that has a best sweep,
\* and the return of process
PrTransfer ==
    /\ pc = "prMinimize"
    /\ cur.i >= Len(cm.graphsToSweepOn)
    /\ LET transferred(gD) ==
               IF gD.g.best # <<>>
               THEN [g |-> transferNodeAndPortOrdersToGraph(gD.g), parent |-> gD.parent,
                     hasExternalPorts |-> gD.hasExternalPorts]
               ELSE gD
       IN cm' = [cm EXCEPT !.graphsToSweepOn =
                    [k \in 1..Len(cm.graphsToSweepOn) |->
                        transferred(cm.graphsToSweepOn[k])]]
    /\ pc' = "prDone"
    /\ cur' = NoCur
    /\ UNCHANGED <<gGraph, gNode, gIn, gDeg, gEdge, cb, ly, hist, orig, cfg, place>>

NextProcess ==
    \/ PrStart
    \/ PrMinimize
    \/ PrTransfer

SpecProcess == InitProcess /\ [][NextProcess]_vars

\* C28: process of the crossing minimizer raises no error, whatever the
\* graph: without layers, with empty layers only, with a single node, or
\* with a nested graph whose first or last layer is empty.
C28_ProcessNeverRaises == pc # "IndexError"

(***************************************************************************)
(* Specification SpecTree: a BinaryIndexedTree made for maxNum numbers, on *)
(* which add, removeAll and clear are called with indexes up to            *)
(* BitMaxIndex while it holds at most BitMaxSize entries.  cm is the tree; *)
(* a Python list is a sequence whose element k is the list's element       *)
(* k - 1.  hist.stored[i] is the number of entries that were added at      *)
(* index i and not removed since.                                          *)
(***************************************************************************)
BitIndexes == 0..BitMaxIndex

Zeros(n) == [k \in 1..n |-> 0]

\* BinaryIndexedTree.__init__
BinaryIndexedTree(maxNum) ==
    [maxNum |-> maxNum,
     binarySums |-> Zeros(maxNum + 1),
     numsPerIndex |-> Zeros(maxNum),
     size |-> 0,
     raised |-> ""]

\* i & -i for i > 0
RECURSIVE lowestOneBit(_)
lowestOneBit(i) == IF i % 2 = 1 THEN 1 ELSE 2 * lowestOneBit(i \div 2)

\* self.maxNum stays what the constructor set
extend_size(T, newMaxNum) ==
    LET toAdd == newMaxNum - T.maxNum
    IN IF toAdd > 0
       THEN [T EXCEPT !.binarySums = @ \o Zeros(toAdd),
                      !.numsPerIndex = @ \o Zeros(toAdd)]
       ELSE T

\* the loops of add and removeAll: binarySums[i] += delta; i += i & -i
RECURSIVE addToSums(_, _, _)
addToSums(binarySums, i, delta) ==
    IF i < Len(binarySums)
    THEN addToSums([binarySums EXCEPT ![i + 1] = @ + delta], i + lowestOneBit(i), delta)
    ELSE binarySums

RECURSIVE add(_, _)
add(T, index) ==
    IF index >= Len(T.numsPerIndex)
    THEN add(extend_size(T, index + 1), index)
    ELSE [T EXCEPT !.numsPerIndex[index + 1] = @ + 1,
                   !.size = @ + 1,
                   !.binarySums = addToSums(@, index + 1, 1),
                   !.raised = ""]

\* an index outside of binarySums adds nothing to the sum
RECURSIVE rank(_, _)
rank(T, index) ==
    IF index > 0
    THEN (IF index < Len(T.binarySums) THEN T.binarySums[index + 1] ELSE 0)
         + rank(T, index - lowestOneBit(index))
    ELSE 0

removeAll(T, index) ==
    IF index >= Len(T.numsPerIndex)
    THEN [T EXCEPT !.raised = "IndexError"]
    ELSE LET numEntries == T.numsPerIndex[index + 1]
         IN IF numEntries = 0
            THEN [T EXCEPT !.raised = ""]
            ELSE [T EXCEPT !.numsPerIndex[index + 1] = 0,
                           !.size = @ - numEntries,
                           !.binarySums = addToSums(@, index + 1, -numEntries),
                           !.raised = ""]

clear(T) ==
    [T EXCEPT !.binarySums = Zeros(Len(@)),
              !.numsPerIndex = Zeros(Len(@)),
              !.size = 0,
              !.raised = ""]

NoStored == [i \in BitIndexes |-> 0]

InitTree ==
    /\ InitNodes(<<>>)
    /\ edges = <<>>
    /\ layers = <<>>
    /\ height = [n \in NodeIds |-> 0]
    /\ direction = [p \in PortIds |-> "None"]
    /\ InitEdgeState(NoEdges)
    /\ cb = NoCb
    /\ ly = NoLy
    /\ cur = NoCur
    /\ orig = NoOrig
    /\ cfg = NoCfg
    /\ place = NoPlace
    /\ pc = "tree"
    /\ hist = [stored |-> NoStored]
    /\ \E maxNum \in 0..BitMaxNum : cm = BinaryIndexedTree(maxNum)

BtAdd ==
    /\ cm.size < BitMaxSize
    /\ \E index \in BitIndexes :
           /\ cm' = add(cm, index)
           /\ hist' = [hist EXCEPT !.stored[index] = @ + 1]
    /\ UNCHANGED <<gGraph, gNode, gIn, gDeg, gEdge, gProc, pc, orig, cfg, place>>

BtRemoveAll ==
    /\ \E index \in BitIndexes :
           /\ cm' = removeAll(cm, index)
           /\ hist' = IF cm'.raised = "" THEN [hist EXCEPT !.stored[index] = 0] ELSE hist
    /\ UNCHANGED <<gGraph, gNode, gIn, gDeg, gEdge, gProc, pc, orig, cfg, place>>

BtClear ==
    /\ cm' = clear(cm)
    /\ hist' = [hist EXCEPT !.stored = NoStored]
    /\ UNCHANGED <<gGraph, gNode, gIn, gDeg, gEdge, gProc, pc, orig, cfg, place>>

NextTree ==
    \/ BtAdd
    \/ BtRemoveAll
    \/ BtClear

SpecTree == InitTree /\ [][NextTree]_vars

RECURSIVE storedBefore(_, _)
storedBefore(stored, i) ==
    IF i <= 0 THEN 0 ELSE stored[i - 1] + storedBefore(stored, i - 1)

\* C29: after any add, removeAll and clear, rank(i) is the number of the
\* entries stored at the indexes smaller than i, for every i up to one past
\* the largest index, whether the tree has grown or not.
C29_RankCountsEntriesBefore ==
    pc = "tree" => \A i \in 0..(BitMaxIndex + 1) : rank(cm, i) = storedBefore(hist.stored, i)

(***************************************************************************)
(* Specification SpecHyper: the hypernodes of OrthogonalRoutingGenerator   *)
(* with the dependencies createDependency makes between them, on which     *)
(* breakCycles and topologicalNumbering are called.  place is the list of  *)
(* the hypernodes: dependencies are the Dependency objects in the order of *)
(* their creation, sourcePosis[n] the number of positions of segments      *)
(* going to the preceding layer.                                           *)
(***************************************************************************)
HnPairs(n) == {p \in (1..n) \X (1..n) : p[1] < p[2]}

\* createDependency for one pair of hypernodes: no dependency (outcome 0),
\* two of weight zero (outcome 1), or one of a positive weight in either
\* direction
HnOutcomes == 0..(2 * HnMaxWeight + 1)

createDependency(p, outcome) ==
    IF outcome = 0 THEN <<>>
    ELSE IF outcome = 1
    THEN <<[source |-> p[1], target |-> p[2], weight |-> 0],
           [source |-> p[2], target |-> p[1], weight |-> 0]>>
    ELSE IF outcome <= HnMaxWeight + 1
    THEN <<[source |-> p[1], target |-> p[2], weight |-> outcome - 1]>>
    ELSE <<[source |-> p[2], target |-> p[1], weight |-> outcome - HnMaxWeight - 1]>>

\* routeEdges: createDependency for every pair of hypernodes, in the order
\* of the two nested loops
RECURSIVE hnCreateDependencies(_, _)
hnCreateDependencies(pairs, choice) ==
    IF pairs = <<>> THEN <<>>
    ELSE createDependency(Head(pairs), choice[Head(pairs)])
         \o hnCreateDependencies(Tail(pairs), choice)

hnPairList(n) == SortedEdges(HnPairs(n))

\* HyperNode.__init__ for n hypernodes, and the Dependency objects
newHyperNodes(n, dependencies, sourcePosis) ==
    [nodes |-> [k \in 1..n |-> k],
     dependencies |-> dependencies,
     sourcePosis |-> sourcePosis,
     mark |-> [k \in 1..n |-> 0],
     rank |-> [k \in 1..n |-> 0],
     inweight |-> [k \in 1..n |-> 0],
     outweight |-> [k \in 1..n |-> 0],
     raised |-> ""]

hnOutgoing(H, n) == SelectSeq(H.dependencies, LAMBDA d : d.source = n)
hnIncoming(H, n) == SelectSeq(H.dependencies, LAMBDA d : d.target = n)

RECURSIVE sumOfWeights(_)
sumOfWeights(deps) == IF deps = <<>> THEN 0 ELSE Head(deps).weight + sumOfWeights(Tail(deps))

\* OrthogonalRoutingGenerator.breakCycles: the first loop gives every
\* hypernode its mark and its weights; HyperNode defines __eq__ and no
\* __hash__, so set(nodes) raises TypeError for a list that is not empty,
\* and for the empty list the remaining loops have nothing to do
breakCycles(H) ==
    LET initialized ==
            [H EXCEPT !.mark = [k \in DOMAIN H.nodes |-> -k],
                      !.inweight = [k \in DOMAIN H.nodes |-> sumOfWeights(hnIncoming(H, k))],
                      !.outweight = [k \in DOMAIN H.nodes |-> sumOfWeights(hnOutgoing(H, k))]]
    IN IF H.nodes = <<>> THEN initialized
       ELSE [initialized EXCEPT !.raised = "TypeError"]

\* OrthogonalRoutingGenerator.topologicalNumbering: the first loop counts the
\* dependencies of every hypernode and collects the sources; sources.remove(0)
\* removes the element that equals 0, and no HyperNode equals 0, so it raises
\* ValueError when there is a source; without a source maxRank stays -1 and
\* nothing is ranked
topologicalNumbering(H) ==
    LET counted ==
            [H EXCEPT !.inweight = [k \in DOMAIN H.nodes |-> Len(hnIncoming(H, k))],
                      !.outweight = [k \in DOMAIN H.nodes |-> Len(hnOutgoing(H, k))]]
        sources == SelectSeq(H.nodes, LAMBDA k : counted.inweight[k] = 0)
    IN IF sources # <<>> THEN [counted EXCEPT !.raised = "ValueError"]
       ELSE counted

\* the hypernodes that a dependency chain of at most steps dependencies
\* leads to from the hypernodes of from
RECURSIVE hnReachable(_, _, _)
hnReachable(H, from, steps) ==
    IF steps = 0 THEN {}
    ELSE LET next == {d.target : d \in {d \in Range(H.dependencies) : d.source \in from}}
         IN next \cup hnReachable(H, next, steps - 1)

hnAcyclic(H) == \A k \in DOMAIN H.nodes : k \notin hnReachable(H, {k}, Len(H.nodes))

InitHyper ==
    /\ NoGraph
    /\ cfg = NoCfg
    /\ cm = NoCm
    /\ pc = "hnNew"
    /\ \E n \in 0..HnNodes :
         \E choice \in [HnPairs(n) -> HnOutcomes], sourcePosis \in [1..n -> 0..1] :
           /\ Cardinality({p \in HnPairs(n) : choice[p] # 0}) <= HnDeps
           /\ place = newHyperNodes(n, hnCreateDependencies(hnPairList(n), choice), sourcePosis)

\* the class method breakCycles is called with the hypernodes, as
\* routeEdges does after it has created the dependencies
HnBreakCycles ==
    /\ pc = "hnNew"
    /\ place' = breakCycles(place)
    /\ pc' = "hnBroken"
    /\ UNCHANGED <<gGraph, gNode, gIn, gDeg, gEdge, gProc, hist, orig, cfg, cm>>

\* the static method topologicalNumbering is called with the hypernodes, as
\* routeEdges does when breakCycles has returned, or by a caller of its own
\* with a dependency graph that has no cycle
HnTopologicalNumbering ==
    /\ \/ pc = "hnBroken" /\ place.raised = ""
       \/ pc = "hnNew" /\ hnAcyclic(place)
    /\ place' = topologicalNumbering(place)
    /\ pc' = "hnRanked"
    /\ UNCHANGED <<gGraph, gNode, gIn, gDeg, gEdge, gProc, hist, orig, cfg, cm>>

NextHyper ==
    \/ HnBreakCycles
    \/ HnTopologicalNumbering

SpecHyper == InitHyper /\ [][NextHyper]_vars

\* C30: when breakCycles has ended the dependencies of the hypernodes have
\* no cycle, and when topologicalNumbering has ended every dependency leads
\* from a hypernode to a hypernode of a strictly higher rank.
C30_DependenciesAcyclicAndRanked ==
    /\ pc = "hnBroken" => hnAcyclic(place)
    /\ pc = "hnRanked" =>
           \A d \in Range(place.dependencies) : place.rank[d.source] < place.rank[d.target]

(***************************************************************************)
(* Specification SpecHyperedge: HyperedgeCrossingsCounter.countCrossings   *)
(* is called with two neighbouring layers.  cm is the call: left and right *)
(* are the numbers of nodes of the two layers, a node of the left layer    *)
(* has one EAST port and a node of the right layer one WEST port, links is *)
(* the list of the edges between them, <<a, b>> from the port of the left  *)
(* node a to the port of the right node b, in the order in which the loops *)
(* over the left layer come to them.  Edges that share a port make a       *)
(* hyperedge.                                                              *)
(***************************************************************************)
SetMin(S) == CHOOSE x \in S : \A y \in S : x <= y
SetMax(S) == CHOOSE x \in S : \A y \in S : x >= y

\* the ports that get an index, and the index of a port: the loops give the
\* ports with an edge to the other layer the numbers 0, 1, ... from top to
\* bottom
sourcePorts(C) == {<<"L", e[1]>> : e \in Range(C.links)}
targetPorts(C) == {<<"R", e[2]>> : e \in Range(C.links)}
portPos(C, port) ==
    Cardinality({p \in sourcePorts(C) \cup targetPorts(C) : p[1] = port[1] /\ p[2] < port[2]})
sourceCount(C) == Cardinality(sourcePorts(C))
targetCount(C) == Cardinality(targetPorts(C))

\* "Gather hyperedges": port2HyperedgeMap after the edges from the k-th on;
\* a hyperedge is named by the number of the edge that created it, 0 is None
RECURSIVE gatherHyperedges(_, _, _)
gatherHyperedges(C, k, port2HyperedgeMap) ==
    IF k > Len(C.links) THEN port2HyperedgeMap
    ELSE LET sourcePort == <<"L", C.links[k][1]>>
             targetPort == <<"R", C.links[k][2]>>
             sourceHE == port2HyperedgeMap[sourcePort]
             targetHE == port2HyperedgeMap[targetPort]
         IN gatherHyperedges(C, k + 1,
                IF sourceHE = 0 /\ targetHE = 0
                THEN [port2HyperedgeMap EXCEPT ![sourcePort] = k, ![targetPort] = k]
                ELSE IF sourceHE = 0
                THEN [port2HyperedgeMap EXCEPT ![sourcePort] = targetHE]
                ELSE IF targetHE = 0
                THEN [port2HyperedgeMap EXCEPT ![targetPort] = sourceHE]
                ELSE IF sourceHE = targetHE THEN port2HyperedgeMap
                ELSE [p \in DOMAIN port2HyperedgeMap |->
                          IF port2HyperedgeMap[p] = targetHE THEN sourceHE
                          ELSE port2HyperedgeMap[p]])

\* "Determine top and bottom positions for each hyperedge"
Hyperedge(C, hePorts) ==
    LET leftPos == {portPos(C, p) : p \in {p \in hePorts : p[1] = "L"}}
        rightPos == {portPos(C, p) : p \in {p \in hePorts : p[1] = "R"}}
    IN [upperLeft |-> SetMin(leftPos \cup {sourceCount(C)}),
        lowerLeft |-> SetMax(leftPos \cup {0}),
        upperRight |-> SetMin(rightPos \cup {targetCount(C)}),
        lowerRight |-> SetMax(rightPos \cup {0})]

hyperedgeSet(C) ==
    LET none == [p \in ({"L"} \X (1..C.left)) \cup ({"R"} \X (1..C.right)) |-> 0]
        port2HyperedgeMap == gatherHyperedges(C, 1, none)
    IN {Hyperedge(C, {p \in DOMAIN port2HyperedgeMap : port2HyperedgeMap[p] = he}) :
            he \in {port2HyperedgeMap[p] : p \in DOMAIN port2HyperedgeMap} \ {0}}

\* Hyperedge.__lt__
hyperedgeLess(a, b) ==
    IF a.upperLeft < b.upperLeft THEN TRUE
    ELSE IF a.upperLeft > b.upperLeft THEN FALSE
    ELSE IF a.upperRight < b.upperRight THEN TRUE
    ELSE FALSE

\* hyperedges.sort(): two hyperedges have no port in common, so no two of
\* them are equal in upperLeft
RECURSIVE sortHyperedges(_)
sortHyperedges(hes) ==
    IF hes = {} THEN <<>>
    ELSE LET least == CHOOSE a \in hes : \A b \in hes : ~hyperedgeLess(b, a)
         IN <<least>> \o sortHyperedges(hes \ {least})

\* southSequence after the compression with compressDeltas: the delta of a
\* position is minus the number of the positions before it that are the
\* upperRight of no hyperedge
compressed(C, hyperedges) ==
    LET marked == {hyperedges[i].upperRight : i \in 1..Len(hyperedges)}
        compressDeltas(pos) == 0 - Cardinality({j \in 0..(pos - 1) : j \notin marked})
    IN [i \in 1..Len(hyperedges) |->
            hyperedges[i].upperRight + compressDeltas(hyperedges[i].upperRight)]

\* while firstIndex < q: firstIndex *= 2
RECURSIVE leafCount(_, _)
leafCount(treeFirstIndex, q) ==
    IF treeFirstIndex < q THEN leafCount(treeFirstIndex * 2, q) ELSE treeFirstIndex

\* the inner loop of "Count the straight-line crossings": from the leaf
\* index up to the root; element i of the list tree is tree[i + 1] here
RECURSIVE climbTree(_, _, _)
climbTree(tree, index, crossings) ==
    IF index > 0
    THEN LET counted == IF index % 2 = 1 THEN crossings + tree[index + 2] ELSE crossings
             parent == (index - 1) \div 2
         IN climbTree([tree EXCEPT ![parent + 1] = @ + 1], parent, counted)
    ELSE [tree |-> tree, crossings |-> crossings]

RECURSIVE countStraightLine(_, _, _, _, _)
countStraightLine(southSequence, k, treeFirstIndex, tree, crossings) ==
    IF k > Len(southSequence) THEN crossings
    ELSE LET index == southSequence[k] + treeFirstIndex
             climbed == climbTree([tree EXCEPT ![index + 1] = @ + 1], index, crossings)
         IN countStraightLine(southSequence, k + 1, treeFirstIndex,
                              climbed.tree, climbed.crossings)

\* HyperedgeCorner.__init__ for both corners of every hyperedge on one side
corners(hyperedges, upper, lower) ==
    [i \in 1..(2 * Len(hyperedges)) |->
        LET he == hyperedges[(i + 1) \div 2]
        IN IF i % 2 = 1
           THEN [hyperedge |-> he, position |-> upper[he], oppositePosition |-> lower[he],
                 type |-> "UPPER"]
           ELSE [hyperedge |-> he, position |-> lower[he], oppositePosition |-> upper[he],
                 type |-> "LOWER"]]

\* HyperedgeCorner.__lt__
cornerLess(a, b) ==
    IF a.position < b.position THEN TRUE
    ELSE IF a.position > b.position THEN FALSE
    ELSE IF a.oppositePosition < b.oppositePosition THEN TRUE
    ELSE IF a.oppositePosition > b.oppositePosition THEN FALSE
    ELSE IF a.hyperedge # b.hyperedge THEN FALSE
    ELSE IF a.type = "UPPER" /\ b.type = "LOWER" THEN TRUE
    ELSE FALSE

\* list.sort() is stable: the first of the least corners comes first
RECURSIVE sortCorners(_)
sortCorners(cs) ==
    IF cs = <<>> THEN <<>>
    ELSE LET least == CHOOSE i \in 1..Len(cs) :
                          /\ \A j \in 1..Len(cs) : ~cornerLess(cs[j], cs[i])
                          /\ \A j \in 1..(i - 1) : cornerLess(cs[j], cs[i]) \/ cornerLess(cs[i], cs[j])
         IN <<cs[least]>> \o sortCorners(SubSeq(cs, 1, least - 1) \o SubSeq(cs, least + 1, Len(cs)))

\* "Count crossings caused by overlapping hyperedge areas": both branches of
\* the loop over the sorted corners end with break, so the loop ends after
\* the first corner; the number returned is what is added to crossings
countOverlaps(sortedCorners) ==
    IF sortedCorners = <<>> THEN 0
    ELSE IF sortedCorners[1].type = "UPPER" THEN 0
    ELSE 0 - 1

\* HyperedgeCrossingsCounter.countCrossings
countHyperedgeCrossings(C) ==
    LET hyperedges == sortHyperedges(hyperedgeSet(C))
        southSequence == compressed(C, hyperedges)
        q == SetMax({0} \cup {southSequence[i] + 1 : i \in 1..Len(southSequence)})
        leaves == leafCount(1, q)
        tree == [i \in 1..(2 * leaves - 1) |-> 0]
        straight == countStraightLine(southSequence, 1, leaves - 1, tree, 0)
        leftCorners == corners(hyperedges, [he \in Range(hyperedges) |-> he.upperLeft],
                               [he \in Range(hyperedges) |-> he.lowerLeft])
        rightCorners == corners(hyperedges, [he \in Range(hyperedges) |-> he.upperRight],
                                [he \in Range(hyperedges) |-> he.lowerRight])
    IN straight + countOverlaps(sortCorners(leftCorners)) + countOverlaps(sortCorners(rightCorners))

HcLinks(left, right) == {es \in SUBSET ((1..left) \X (1..right)) : Cardinality(es) <= HcEdges}

InitHyperedge ==
    /\ NoGraph
    /\ cfg = NoCfg
    /\ place = NoPlace
    /\ pc = "hcNew"
    /\ \E left \in 1..HcWidth, right \in 1..HcWidth :
         \E es \in HcLinks(left, right) :
           cm = [left |-> left, right |-> right, links |-> SortedEdges(es), crossings |-> -1]

HcCountCrossings ==
    /\ pc = "hcNew"
    /\ cm' = [cm EXCEPT !.crossings = countHyperedgeCrossings(cm)]
    /\ pc' = "hcDone"
    /\ UNCHANGED <<gGraph, gNode, gIn, gDeg, gEdge, gProc, hist, orig, cfg, place>>

NextHyperedge == HcCountCrossings

SpecHyperedge == InitHyperedge /\ [][NextHyperedge]_vars

\* the estimate of Spoenemann et al.: the crossings of the topmost edges of
\* the hyperedges as straight lines ...
straightLineCrossings(hyperedges) ==
    Cardinality({p \in hyperedges \X hyperedges :
                    p[1].upperLeft < p[2].upperLeft /\ p[1].upperRight > p[2].upperRight})

\* ... and, on one side, for every hyperedge the number of the hyperedges
\* that are open where it ends: those that begin before its end and end
\* after it
overlaps(hyperedges, upper, lower) ==
    Cardinality({p \in hyperedges \X hyperedges :
                    upper[p[2]] < lower[p[1]] /\ lower[p[1]] < lower[p[2]]})

estimate(C) ==
    LET hyperedges == hyperedgeSet(C)
    IN straightLineCrossings(hyperedges)
       + overlaps(hyperedges, [he \in hyperedges |-> he.upperLeft],
                  [he \in hyperedges |-> he.lowerLeft])
       + overlaps(hyperedges, [he \in hyperedges |-> he.upperRight],
                  [he \in hyperedges |-> he.lowerRight])

\* no port has two edges
onlyOrdinaryEdges(C) ==
    \A i, j \in 1..Len(C.links) :
        i # j => (C.links[i][1] # C.links[j][1] /\ C.links[i][2] # C.links[j][2])

crossingEdgePairs(C) ==
    Cardinality({p \in Range(C.links) \X Range(C.links) :
                    p[1][1] < p[2][1] /\ p[1][2] > p[2][2]})

\* C21: countCrossings returns the estimate: the straight-line crossings of
\* the topmost edges of the hyperedges plus the overlaps of the hyperedges
\* on the left and on the right side; for layers with ordinary edges only
\* that is the number of the pairs of edges that cross.
C21_HyperedgeEstimate ==
    pc = "hcDone" =>
        /\ cm.crossings = estimate(cm)
        /\ onlyOrdinaryEdges(cm) => cm.crossings = crossingEdgePairs(cm)

====
